---------------------------- MODULE Spec2Model ----------------------------
(***************************************************************************)
(* Model of lqu/scribit: the jog CLI (src/src/scribit_jog_cli.py) and the  *)
(* batch converter (src/src/scribit_svg_to_gcode.py).                      *)
(*                                                                         *)
(* Numbers.  Every angle and every jog step of the programs is a float    *)
(* that is a whole multiple of 0.5 (slot angles, -56, 360 and the entries  *)
(* of step_choices), so the model keeps them exactly as integers counted   *)
(* in half units: Deg(89) is 89.0, 1 is 0.5.  Fmt3 is Python's ':.3f' on   *)
(* such a value.  A program text is the sequence of its lines; the         *)
(* programs join them with "\n".                                           *)
(***************************************************************************)
EXTENDS Integers, Sequences, FiniteSets, TLC

(* ------------------------------ bounds -------------------------------- *)

\* key presses handled by the curses loop in a session with HTTP clients
MaxKeys == 2
\* HTTP requests served in such a session
MaxGets == 1
\* key presses handled in a session without HTTP clients
MaxSoloKeys == 4
\* calls made on one CarouselState of the batch converter
MaxCalls == 2
\* the angle such a CarouselState starts from: unknown, or any multiple of
\* 0.5 from -360 degrees up to ZTurns full turns
ZTurns == 2

(* --------------------------- number helpers --------------------------- *)

Deg(d) == 2 * d

Abs(n) == IF n < 0 THEN -n ELSE n

\* Python f"{v:.3f}" for v a multiple of 0.5 (v counted in halves)
Fmt3(v) ==
    (IF v < 0 THEN "-" ELSE "") \o ToString(Abs(v) \div 2)
        \o (IF Abs(v) % 2 = 1 THEN ".500" ELSE ".000")

\* Python f"{-v:.3f}": the negation of the float 0.0 is -0.0, printed "-0.000"
Fmt3Neg(v) == IF v = 0 THEN "-0.000" ELSE Fmt3(-v)

\* Python f"{v:g}" for the whole number of degrees Z_AFTER_G77
FmtG(v) == (IF v < 0 THEN "-" ELSE "") \o ToString(Abs(v) \div 2)

(* Optional[float]: None is the empty tuple, a known angle v is <<v>> *)
None == << >>
Some(v) == << v >>
IsKnown(o) == o # None
Val(o) == o[1]

(* ------------------- scribit_jog_cli.py: the tables ------------------- *)

MOTOR_CMDS ==
    [ BOTH_IN  |-> << -1, -1 >>,
      BOTH_OUT |-> <<  1,  1 >>,
      L_IN     |-> << -1,  0 >>,
      L_OUT    |-> <<  1,  0 >>,
      R_IN     |-> <<  0, -1 >>,
      R_OUT    |-> <<  0,  1 >>,
      LEFTISH  |-> << -1,  1 >>,
      RIGHTISH |-> <<  1, -1 >> ]

CAROUSEL_CMDS == { "CAR_CCW", "CAR_CW" }

PEN_SLOT_Z == [ p \in 1..4 |-> Deg(CASE p = 1 -> 89 [] p = 2 -> 161
                                      [] p = 3 -> 233 [] p = 4 -> 305) ]

PEN_CMDS == { "P1_UP", "P2_UP", "P3_UP", "P4_UP",
              "P1_DOWN", "P2_DOWN", "P3_DOWN", "P4_DOWN" }

SPECIAL_CMDS == { "G77" } \cup CAROUSEL_CMDS \cup PEN_CMDS

\* int(cmd[1]) and cmd.endswith("DOWN") of publish_cmd
PenOf(cmd) ==
    CASE cmd \in { "P1_UP", "P1_DOWN" } -> 1
      [] cmd \in { "P2_UP", "P2_DOWN" } -> 2
      [] cmd \in { "P3_UP", "P3_DOWN" } -> 3
      [] cmd \in { "P4_UP", "P4_DOWN" } -> 4

IsDown(cmd) == cmd \in { "P1_DOWN", "P2_DOWN", "P3_DOWN", "P4_DOWN" }

step_choices ==
    << 1, Deg(1), Deg(2), Deg(5), Deg(10), Deg(30), Deg(50), Deg(72),
       Deg(90), Deg(100), Deg(200) >>

feed_choices == << 600, 900, 1200, 1800, 2400, 3000 >>

Key(s, f) == [ step |-> s, feed |-> f ]

(* ---------------- scribit_jog_cli.py: Cache._build_gcode -------------- *)

\* the value _build_gcode returns, or "ValueError" where it raises
ValueError == << "ValueError" >>

build_gcode(key, cmd) ==
    IF cmd \in DOMAIN MOTOR_CMDS THEN
        LET sx == MOTOR_CMDS[cmd][1]
            sy == MOTOR_CMDS[cmd][2]
            dL == sx * key.step
            dR == sy * key.step
        IN  << "G21", "G91", "M17",
               "G1 X" \o Fmt3(dL) \o " Y" \o Fmt3Neg(dR)
                   \o " F" \o ToString(key.feed) >>
    ELSE IF cmd \in CAROUSEL_CMDS THEN
        LET dz == IF cmd = "CAR_CCW" THEN key.step ELSE -key.step
        IN  << "G21", "G91", "M17",
               "G1 Z" \o Fmt3(dz) \o " F" \o ToString(key.feed) >>
    ELSE IF cmd = "G77" THEN
        << "G21", "G90", "M17", "G77", "G92 Z-56" >>
    ELSE ValueError

(* --------------- the carousel target, in both programs ---------------- *)

\* a variant whose loop body never runs
WhileLess_skip(target, current_z) == target

RECURSIVE WhileLess(_, _)
\* while target < current_z: target += 360.0
WhileLess(target, current_z) ==
    IF target < current_z THEN WhileLess(target + Deg(360), current_z)
    ELSE target

\* a variant that forgets the wrap: always the slot angle itself
App_ccw_only_target_nowrap(current_z, slot_z) == slot_z

\* scribit_jog_cli.py: App._ccw_only_target
App_ccw_only_target(current_z, slot_z) ==
    IF current_z = None THEN slot_z
    ELSE WhileLess(slot_z, Val(current_z))

RECURSIVE WhileLessEq(_, _)
WhileLessEq(target, current_z) ==
    IF target <= current_z THEN WhileLessEq(target + Deg(360), current_z)
    ELSE target

\* a variant whose loop tests target <= current_z
ccw_only_target_leq(current_z, slot_z) ==
    IF current_z = None THEN slot_z
    ELSE WhileLessEq(slot_z, Val(current_z))

\* scribit_svg_to_gcode.py: ccw_only_target
ccw_only_target(current_z, slot_z) ==
    IF current_z = None THEN slot_z
    ELSE WhileLess(slot_z, Val(current_z))

(* ----------- scribit_jog_cli.py: the dynamic program texts ------------ *)

\* a variant that writes the target reduced to one turn
PenLines_oneturn(target, is_down, fz) ==
    << "G21", "G90", "M17",
       "G1 Z" \o Fmt3(target % Deg(360)) \o " F" \o ToString(fz) >>
        \o (IF is_down THEN << "G101", "G101", "G101" >> ELSE << >>)

\* the lines build_pen_gcode returns for a computed target
PenLines(target, is_down, fz) ==
    << "G21", "G90", "M17", "G1 Z" \o Fmt3(target) \o " F" \o ToString(fz) >>
        \o (IF is_down THEN << "G101", "G101", "G101" >> ELSE << >>)

\* the lines build_g77_gcode returns
G77Lines == << "G21", "G90", "M17", "G77", "G92 Z-56" >>

(* ------------- scribit_svg_to_gcode.py: the carousel blocks ----------- *)

PEN_SLOTS_Z == [ p \in 1..4 |-> Deg(CASE p = 1 -> 89 [] p = 2 -> 161
                                       [] p = 3 -> 233 [] p = 4 -> 305) ]

Z_AFTER_G77 == Deg(-56)

\* a variant that sets st.z only when it is unknown
gcode_home_carousel_keep(stz) ==
    [ z |-> IF stz = None THEN Some(Z_AFTER_G77) ELSE stz,
      lines |-> << "G21", "G90", "M17", "G77",
                   "G92 Z" \o FmtG(Z_AFTER_G77), "G91" >> ]

\* gcode_home_carousel(st): the new st.z and the lines returned
gcode_home_carousel(stz) ==
    [ z |-> Some(Z_AFTER_G77),
      lines |-> << "G21", "G90", "M17", "G77",
                   "G92 Z" \o FmtG(Z_AFTER_G77), "G91" >> ]

\* gcode_pen_select_ccw(pen, f_z, st): the new st.z and the lines returned;
\* for a pen outside PEN_SLOTS_Z it raises and st is left as it was
gcode_pen_select_ccw(pen, f_z, stz) ==
    IF pen \notin DOMAIN PEN_SLOTS_Z
    THEN [ z |-> stz, lines |-> ValueError ]
    ELSE LET slot == PEN_SLOTS_Z[pen]
             target == ccw_only_target(stz, slot)
         IN  [ z |-> Some(target),
               lines |-> << "G90",
                            "G1 Z" \o Fmt3(target) \o " F" \o ToString(f_z),
                            "G91" >> ]

\* a variant that goes back to the slot's table angle
gcode_pen_up_reset(pen, f_z, stz) == gcode_pen_select_ccw(pen, f_z, None)

\* gcode_pen_up(pen, f_z, st)
gcode_pen_up(pen, f_z, stz) == gcode_pen_select_ccw(pen, f_z, stz)

(* ------------- scribit_svg_to_gcode.py: float arithmetic -------------- *)

(* Lengths, seconds and ratios of the batch converter are Python floats.  *)
(* The model keeps a float as a whole number of ticks of 2^-FracBits and   *)
(* rounds the result of every operation to FloatBits significant bits,     *)
(* ties to even, as IEEE 754 does with 53 bits; values below 2^FloatBits   *)
(* ticks are whole ticks.  The inputs of the modelled runs are values      *)
(* this format holds exactly.                                              *)
FracBits == 10
FloatBits == 6

RECURSIVE Pow2(_)
Pow2(n) == IF n <= 0 THEN 1 ELSE 2 * Pow2(n - 1)

\* 1.0 in ticks
One == Pow2(FracBits)

\* a whole number and a half as floats
Mm(n) == n * One
Half == One \div 2

RECURSIVE BitLen(_)
BitLen(n) == IF n <= 0 THEN 0 ELSE 1 + BitLen(n \div 2)

\* the whole number nearest to num / den (num >= 0, den > 0), ties to even
RoundHalfEven(num, den) ==
    LET q == num \div den
        r == num % den
    IN  IF 2 * r > den \/ (2 * r = den /\ q % 2 = 1) THEN q + 1 ELSE q

\* the float nearest to num / den ticks (den > 0)
Fl(num, den) ==
    LET Rounded(u) ==
            (IF num < 0 THEN -1 ELSE 1) * RoundHalfEven(Abs(num), den * u) * u
    IN  Rounded(Pow2(BitLen(Abs(num) \div den) - FloatBits))

\* a + b, a - b, a * b, a / b (b > 0) of two floats
FAdd(a, b) == Fl(a + b, 1)
FSub(a, b) == Fl(a - b, 1)
FMul(a, b) == Fl(a * b, One)
FDiv(a, b) == Fl(a * One, b)

\* i / n of two Python ints (true division)
IntDiv(i, n) == Fl(i * One, n)

\* max(a, b), min(a, b)
Max(a, b) == IF b > a THEN b ELSE a
Min(a, b) == IF b < a THEN b ELSE a

\* int(math.ceil(r)) of a float r
Ceil(r) == IF r >= 0 THEN (r + One - 1) \div One ELSE -((-r) \div One)

RECURSIVE IsqrtIn(_, _, _)
\* the largest s in lo .. hi with s * s <= v
IsqrtIn(v, lo, hi) ==
    IF lo >= hi THEN lo
    ELSE LET mid == (lo + hi + 1) \div 2
         IN  IF mid * mid <= v THEN IsqrtIn(v, mid, hi)
             ELSE IsqrtIn(v, lo, mid - 1)

\* math.hypot(a, b): the float nearest to sqrt(a*a + b*b)
Hypot(a, b) ==
    LET \* s the whole root of v, u the spacing of the floats at s
        Rounded(v, s, u) ==
            LET lower == (s \div u) * u
                \* v - (lower + u/2)^2 without its term u*u/4
                over == v - lower * lower - lower * u
            IN  IF 4 * over > u * u THEN lower + u
                ELSE IF 4 * over = u * u /\ (s \div u) % 2 = 1
                THEN lower + u
                ELSE lower
        Root(v, s) == Rounded(v, s, Pow2(BitLen(s) - FloatBits))
    IN  Root(a * a + b * b, IsqrtIn(a * a + b * b, 0, Abs(a) + Abs(b)))

\* three digits
Digits3(n) ==
    (IF n < 10 THEN "00" ELSE IF n < 100 THEN "0" ELSE "") \o ToString(n)

\* f"{v:.3f}" of a float v: the exact value rounded to thousandths
Fmt3T(v) ==
    LET Thousandths(n) ==
            (IF v < 0 THEN "-" ELSE "") \o ToString(n \div 1000) \o "."
                \o Digits3(n % 1000)
    IN  Thousandths(RoundHalfEven(Abs(v) * 1000, One))

\* f"{-v:.3f}": the negation of 0.0 is -0.0, printed "-0.000"
Fmt3TNeg(v) == IF v = 0 THEN "-0.000" ELSE Fmt3T(-v)

(* ------------ scribit_svg_to_gcode.py: geometry and moves ------------- *)

xy_to_lr(x_mm, y_mm, D_mm) ==
    << Hypot(x_mm, y_mm), Hypot(FSub(D_mm, x_mm), y_mm) >>

gcode_header == << "G21", "G91", "M17" >>

\* a variant that pulses the solenoid twice
gcode_pen_down_twice == << "G101", "G101" >>

\* gcode_pen_down(): the solenoid pulses that put the pen down
gcode_pen_down == << "G101", "G101", "G101" >>

\* a variant without the clamp
gcode_dwell_raw(seconds) == << "G4 S" \o Fmt3T(seconds) >>

\* gcode_dwell(seconds): s = max(0.0, seconds); f"G4 S{s:.3f}"
gcode_dwell(seconds) == << "G4 S" \o Fmt3T(Max(0, seconds)) >>

\* a variant that prints dR as it is
wall_xy_to_lr_delta_g1_plain(cur_xy, next_xy, D_mm, feed) ==
    LET Delta(lr0, lr1) ==
            [ line |-> "G1 X" \o Fmt3T(FSub(lr1[1], lr0[1]))
                           \o " Y" \o Fmt3T(FSub(lr1[2], lr0[2]))
                           \o " F" \o ToString(feed),
              xy |-> next_xy ]
    IN  Delta(xy_to_lr(cur_xy[1], cur_xy[2], D_mm),
              xy_to_lr(next_xy[1], next_xy[2], D_mm))

\* the line and the updated xy
wall_xy_to_lr_delta_g1(cur_xy, next_xy, D_mm, feed) ==
    LET Delta(lr0, lr1) ==
            [ line |-> "G1 X" \o Fmt3T(FSub(lr1[1], lr0[1]))
                           \o " Y" \o Fmt3TNeg(FSub(lr1[2], lr0[2]))
                           \o " F" \o ToString(feed),
              xy |-> next_xy ]
    IN  Delta(xy_to_lr(cur_xy[1], cur_xy[2], D_mm),
              xy_to_lr(next_xy[1], next_xy[2], D_mm))

\* move_xy_segmented: mid of the loop's pass i
SegMid(cur_xy, target_xy, i, n) ==
    LET Mid(dx, dy, t) ==
            << FAdd(cur_xy[1], FMul(dx, t)), FAdd(cur_xy[2], FMul(dy, t)) >>
    IN  Mid(FSub(target_xy[1], cur_xy[1]), FSub(target_xy[2], cur_xy[2]),
            IntDiv(i, n))

RECURSIVE SegLoop(_, _, _, _, _, _, _, _)
\* move_xy_segmented: for i in range(1, n + 1), from pass i on
SegLoop(i, n, cur_xy, target_xy, D_mm, feed, xy, lines) ==
    IF i > n THEN [ lines |-> lines, xy |-> xy ]
    ELSE LET Pass(mv) ==
                 SegLoop(i + 1, n, cur_xy, target_xy, D_mm, feed, mv.xy,
                         Append(lines, mv.line))
         IN  Pass(wall_xy_to_lr_delta_g1(
                      xy, SegMid(cur_xy, target_xy, i, n), D_mm, feed))

\* move_xy_segmented: dist and n
SegDist(cur_xy, target_xy) ==
    Hypot(FSub(target_xy[1], cur_xy[1]), FSub(target_xy[2], cur_xy[2]))

\* a variant that rounds the quotient down
SegN_floor(dist, max_step_mm) ==
    Max(1, FDiv(dist, max_step_mm) \div One)

\* n = max(1, int(math.ceil(dist / max_step_mm)))
SegN(dist, max_step_mm) == Max(1, Ceil(FDiv(dist, max_step_mm)))

\* the lines and the new xy
\* (no positive float of the model is as small as 1e-9)
move_xy_segmented(cur_xy, target_xy, D_mm, feed, max_step_mm) ==
    LET Single(mv) == [ lines |-> << mv.line >>, xy |-> mv.xy ]
        From(dist) ==
            IF dist <= 0 THEN [ lines |-> << >>, xy |-> cur_xy ]
            ELSE IF max_step_mm <= 0
            THEN Single(wall_xy_to_lr_delta_g1(cur_xy, target_xy, D_mm, feed))
            ELSE SegLoop(1, SegN(dist, max_step_mm), cur_xy, target_xy, D_mm,
                         feed, cur_xy, << >>)
    IN  From(SegDist(cur_xy, target_xy))

(* ------------------------------- state -------------------------------- *)

VARIABLES
    prog,       \* the program that runs: "jog_cli" or "svg_to_gcode"
    step,       \* run_curses: the closure variable step
    feed,       \* run_curses: the closure variable feed
    CURRENT,    \* the module-level dict CURRENT
    curLock,    \* CUR_LOCK: the thread holding it, or "free"
    z,          \* App._z
    zLock,      \* App._z_lock: the thread holding it, or "free"
    cache,      \* CACHE._cache: (key, cmd) -> text
    cacheLock,  \* CACHE._lock: the thread holding it, or "free"
    dyn,        \* Handler._dyn_gcode: cmd -> text
    pc,         \* per thread: where it stands in its handler
    loc,        \* per thread: the handler's local variables
    resp,       \* the HTTP response sent last
    keysLeft,   \* key presses the session still handles
    getsLeft,   \* HTTP requests the session still accepts
    builds,     \* (key, cmd) -> completed runs of Cache._build_gcode
    log,        \* the completed operations on the carousel, oldest first
    st,         \* svg_to_gcode: the field z of the CarouselState in use
    callsLeft,  \* svg_to_gcode: calls still made on that CarouselState
    args,       \* svg_to_gcode main: the parsed command line (Args)
    drawable,   \* main: the (path, pen) list load_drawable_paths returns
    bpc,        \* main: where it stands
    mapper,     \* main: the SvgToWallMapper and the mapped bbox corners
    g,          \* main: g_bbox, then g_draw
    cur_xy,     \* main: cur_xy
    idx,        \* main: the pass of the loop it is in
    files,      \* the output files written: name -> lines
    seg         \* a call of move_xy_segmented on its own: its arguments

\* the variables of a run of the batch converter
batch == << args, drawable, bpc, mapper, g, cur_xy, idx, files, seg >>

vars == << prog, step, feed, CURRENT, curLock, z, zLock, cache, cacheLock, dyn, pc,
           loc, resp, keysLeft, getsLeft, builds, log, st, callsLeft, batch >>

\* no run of main and no call of move_xy_segmented is modelled
NoBatch ==
    /\ args = << >>
    /\ drawable = << >>
    /\ bpc = "none"
    /\ mapper = << >>
    /\ g = << >>
    /\ cur_xy = << 0, 0 >>
    /\ idx = 0
    /\ files = << >>
    /\ seg = << >>

Http == { "h1", "h2" }
Threads == { "in" } \cup Http

NoKey == Key(0, 0)
NoLoc == [ cmd |-> "", key |-> NoKey, cur |-> None, gcode |-> << >>, z0 |-> None ]
NoResp == [ code |-> 0, body |-> << >>, src |-> "", cmd |-> "", key |-> NoKey ]

\* every command the curses loop publishes, and its step/feed keys
AllCmds == DOMAIN MOTOR_CMDS \cup SPECIAL_CMDS
SettingKeys == { "[", "]", "-", "=" }

\* the keys pressed in the modelled sessions that HTTP clients talk to
ServedCmds == { "BOTH_IN", "CAR_CCW", "P1_DOWN", "G77" }
ServedSettingKeys == { "]" }
\* the command names those clients ask for
GetCmds == { "BOTH_IN", "CAR_CCW", "P1_DOWN", "G77", "BOGUS" }

\* the keys pressed in the modelled sessions without HTTP clients
SoloCmds == { "BOTH_IN", "L_OUT", "CAR_CCW", "CAR_CW", "G77",
              "P1_DOWN", "P1_UP", "P2_UP", "P3_DOWN", "P4_DOWN" }

\* --step and --feed of the command line after nearest(): the defaults, and
\* a pair that differs from the initial CURRENT in both fields
StartSettings == { << Deg(2), 900 >>, << Deg(5), 1200 >> }

IndexOf(seq, v) == CHOOSE i \in 1..Len(seq) : seq[i] = v

\* the module level of scribit_jog_cli.py, App.__init__, and run_curses up
\* to its first call of apply_settings
InitSession(keys, gets) ==
    /\ prog = "jog_cli"
    /\ \E a \in StartSettings : step = a[1] /\ feed = a[2]
    /\ CURRENT = [ step |-> Deg(2), feed |-> 900 ]
    /\ curLock = "free"
    /\ z = None
    /\ zLock = "free"
    /\ cache = << >>
    /\ cacheLock = "free"
    /\ dyn = << >>
    /\ pc = [ t \in Threads |-> IF t = "in" THEN "apply" ELSE "idle" ]
    /\ loc = [ t \in Threads |-> NoLoc ]
    /\ resp = NoResp
    /\ keysLeft = keys
    /\ getsLeft = gets
    /\ builds = << >>
    /\ log = << >>
    /\ st = None
    /\ callsLeft = 0
    /\ NoBatch

\* f with x mapped to v (a Python dict assignment f[x] = v)
Put(f, x, v) == [ y \in DOMAIN f \cup { x } |-> IF y = x THEN v ELSE f[y] ]

Goto(t, label) == pc' = [ pc EXCEPT ![t] = label ]

(* ------------------- run_curses: the step / feed keys ----------------- *)

\* step_down, step_up, feed_down, feed_up up to their call of apply_settings
SettingKey(k) ==
    /\ prog = "jog_cli"
    /\ pc["in"] = "idle"
    /\ keysLeft > 0
    /\ keysLeft' = keysLeft - 1
    /\ LET i == IndexOf(step_choices, step)
           j == IndexOf(feed_choices, feed)
           s == CASE k = "[" /\ i > 1 -> step_choices[i - 1]
                  [] k = "]" /\ i < Len(step_choices) -> step_choices[i + 1]
                  [] OTHER -> step
           f == CASE k = "-" /\ j > 1 -> feed_choices[j - 1]
                  [] k = "=" /\ j < Len(feed_choices) -> feed_choices[j + 1]
                  [] OTHER -> feed
       IN  /\ step' = s
           /\ feed' = f
           /\ Goto("in", IF s # step \/ f # feed THEN "apply" ELSE "idle")
    /\ UNCHANGED << prog, CURRENT, curLock, z, zLock, cache, cacheLock, dyn, loc,
                    resp, getsLeft, builds, log, st, callsLeft, batch >>

\* apply_settings: with CUR_LOCK: CURRENT["step"] = step
ApplyStep ==
    /\ pc["in"] = "apply"
    /\ curLock = "free"
    /\ curLock' = "in"
    /\ CURRENT' = [ CURRENT EXCEPT !.step = step ]
    /\ Goto("in", "apply_feed")
    /\ UNCHANGED << prog, step, feed, z, zLock, cache, cacheLock, dyn, loc, resp,
                    keysLeft, getsLeft, builds, log, st, callsLeft, batch >>

\* apply_settings: CURRENT["feed"] = feed, and the lock is released
ApplyFeed ==
    /\ pc["in"] = "apply_feed"
    /\ CURRENT' = [ CURRENT EXCEPT !.feed = feed ]
    /\ curLock' = "free"
    /\ Goto("in", "idle")
    /\ UNCHANGED << prog, step, feed, z, zLock, cache, cacheLock, dyn, loc, resp,
                    keysLeft, getsLeft, builds, log, st, callsLeft, batch >>

(* ---------- reading the current key (publish_cmd and do_GET) ---------- *)

\* a variant that reads CURRENT["step"] without waiting for CUR_LOCK
ReadKeyStep_nolock(t) ==
    /\ pc[t] = "key"
    /\ curLock' = t
    /\ loc' = [ loc EXCEPT ![t].key.step = CURRENT.step ]
    /\ Goto(t, "key_feed")
    /\ UNCHANGED << prog, step, feed, CURRENT, z, zLock, cache, cacheLock,
                    dyn, resp, keysLeft, getsLeft, builds, log, st, callsLeft,
                    batch >>

\* with CUR_LOCK: float(CURRENT["step"]) is evaluated
ReadKeyStep(t) ==
    /\ pc[t] = "key"
    /\ curLock = "free"
    /\ curLock' = t
    /\ loc' = [ loc EXCEPT ![t].key.step = CURRENT.step ]
    /\ Goto(t, "key_feed")
    /\ UNCHANGED << prog, step, feed, CURRENT, z, zLock, cache, cacheLock, dyn, resp,
                    keysLeft, getsLeft, builds, log, st, callsLeft, batch >>

\* where publish_cmd goes once it holds its key
Dispatch(cmd) ==
    IF cmd \in PEN_CMDS THEN "pen_get"
    ELSE IF cmd = "G77" THEN "g77"
    ELSE "cache"

\* int(CURRENT["feed"]) is evaluated, the Key is built, the lock released
ReadKeyFeed(t) ==
    /\ pc[t] = "key_feed"
    /\ curLock' = "free"
    /\ loc' = [ loc EXCEPT ![t].key.feed = CURRENT.feed ]
    /\ Goto(t, IF t = "in" THEN Dispatch(loc[t].cmd) ELSE "cache")
    /\ UNCHANGED << prog, step, feed, CURRENT, z, zLock, cache, cacheLock, dyn, resp,
                    keysLeft, getsLeft, builds, log, st, callsLeft, batch >>

(* ------------------------- App.publish_cmd ---------------------------- *)

\* one finished operation, as the log keeps it
Entry(cmd, pen, key, z0, z1, gcode) ==
    [ cmd |-> cmd, pen |-> pen, key |-> key, z0 |-> z0, z1 |-> z1,
      gcode |-> gcode ]

\* the rest of publish_cmd after the program is prepared: ensure_idle,
\* reset_n and the MQTT print message change nothing the model keeps
Finish(znew, gcode) ==
    /\ log' = Append(log,
                Entry(loc["in"].cmd,
                      IF loc["in"].cmd \in PEN_CMDS THEN PenOf(loc["in"].cmd)
                      ELSE 0,
                      loc["in"].key, loc["in"].z0, znew, gcode))
    /\ loc' = [ loc EXCEPT !["in"] = NoLoc ]
    /\ Goto("in", "idle")

\* loop: a command key; publish_cmd starts
Publish(cmd) ==
    /\ prog = "jog_cli"
    /\ pc["in"] = "idle"
    /\ keysLeft > 0
    /\ keysLeft' = keysLeft - 1
    /\ loc' = [ loc EXCEPT !["in"] = [ NoLoc EXCEPT !.cmd = cmd, !.z0 = z ] ]
    /\ Goto("in", "key")
    /\ UNCHANGED << prog, step, feed, CURRENT, curLock, z, zLock, cache, cacheLock,
                    dyn, resp, getsLeft, builds, log, st, callsLeft, batch >>

\* where the input thread stands before a with self._z_lock block
AtZLock ==
    \/ pc["in"] \in { "pen_get", "pen_set", "g77", "jog_get" }
    \/ pc["in"] = "jog_set" /\ loc["in"].cur # None

\* _z_get / _z_set: with self._z_lock is entered; the step that follows
\* reads or writes self._z and leaves the block
ZLockAcquire ==
    /\ AtZLock
    /\ zLock = "free"
    /\ zLock' = "in"
    /\ UNCHANGED << prog, step, feed, CURRENT, curLock, z, cache, cacheLock,
                    dyn, pc, loc, resp, keysLeft, getsLeft, builds, log, st,
                    callsLeft, batch >>

\* build_pen_gcode: cur = self._z_get()
PenZGet ==
    /\ pc["in"] = "pen_get"
    /\ zLock = "in"
    /\ loc' = [ loc EXCEPT !["in"].cur = z ]
    /\ Goto("in", "pen_set")
    /\ zLock' = "free"
    /\ UNCHANGED << prog, step, feed, CURRENT, curLock, z, cache, cacheLock,
                    dyn, resp, keysLeft, getsLeft, builds, log, st, callsLeft, batch >>

\* build_pen_gcode: the target, the lines, self._z_set(target)
PenZSet ==
    /\ pc["in"] = "pen_set"
    /\ zLock = "in"
    /\ LET pen == PenOf(loc["in"].cmd)
           target == App_ccw_only_target(loc["in"].cur, PEN_SLOT_Z[pen])
       IN  /\ z' = Some(target)
           /\ loc' = [ loc EXCEPT !["in"].gcode =
                         PenLines(target, IsDown(loc["in"].cmd), 2000) ]
    /\ Goto("in", "set_dyn")
    /\ zLock' = "free"
    /\ UNCHANGED << prog, step, feed, CURRENT, curLock, cache, cacheLock, dyn,
                    resp, keysLeft, getsLeft, builds, log, st, callsLeft, batch >>

\* build_g77_gcode: the lines, self._z_set(-56.0)
G77ZSet ==
    /\ pc["in"] = "g77"
    /\ zLock = "in"
    /\ z' = Some(Deg(-56))
    /\ loc' = [ loc EXCEPT !["in"].gcode = G77Lines ]
    /\ Goto("in", "set_dyn")
    /\ zLock' = "free"
    /\ UNCHANGED << prog, step, feed, CURRENT, curLock, cache, cacheLock, dyn,
                    resp, keysLeft, getsLeft, builds, log, st, callsLeft, batch >>

\* a variant that stores nothing
SetDynamic_skip ==
    /\ pc["in"] = "set_dyn"
    /\ Goto("in", "print")
    /\ UNCHANGED << prog, step, feed, CURRENT, curLock, z, zLock, cache,
                    cacheLock, dyn, loc, resp, keysLeft, getsLeft, builds,
                    log, st, callsLeft, batch >>

\* Handler.set_dynamic_gcode(cmd, gcode)
SetDynamic ==
    /\ pc["in"] = "set_dyn"
    /\ dyn' = Put(dyn, loc["in"].cmd, loc["in"].gcode)
    /\ Goto("in", "print")
    /\ UNCHANGED << prog, step, feed, CURRENT, curLock, z, zLock, cache,
                    cacheLock, loc, resp, keysLeft, getsLeft, builds, log, st,
                    callsLeft, batch >>

\* publish_cmd of a dynamic command, after the program is stored: the
\* rest, up to the MQTT print message that has the robot fetch it
PrintDynamic ==
    /\ pc["in"] = "print"
    /\ Finish(z, loc["in"].gcode)
    /\ UNCHANGED << prog, step, feed, CURRENT, curLock, z, zLock, cache,
                    cacheLock, dyn, resp, keysLeft, getsLeft, builds, st,
                    callsLeft, batch >>

\* publish_cmd, CAROUSEL_CMDS: cur = self._z_get()
JogZGet ==
    /\ pc["in"] = "jog_get"
    /\ zLock = "in"
    /\ loc' = [ loc EXCEPT !["in"].cur = z ]
    /\ Goto("in", "jog_set")
    /\ zLock' = "free"
    /\ UNCHANGED << prog, step, feed, CURRENT, curLock, z, cache, cacheLock,
                    dyn, resp, keysLeft, getsLeft, builds, log, st, callsLeft, batch >>

\* a variant that always adds key.step
JogDz_plus(key, cmd) == key.step

\* publish_cmd: dz = key.step if cmd == "CAR_CCW" else -key.step
JogDz(key, cmd) == IF cmd = "CAR_CCW" THEN key.step ELSE -key.step

\* a variant that counts an unknown angle as 0
JogNewZ_zero(cur, dz, zold) ==
    IF cur # None THEN Some(Val(cur) + dz) ELSE Some(dz)

\* publish_cmd: if cur is not None: self._z_set(cur + dz); App._z after it
JogNewZ(cur, dz, zold) == IF cur # None THEN Some(Val(cur) + dz) ELSE zold

\* publish_cmd: the carousel tracking, then the rest
JogZSet ==
    /\ pc["in"] = "jog_set"
    /\ loc["in"].cur # None => zLock = "in"
    /\ LET dz == JogDz(loc["in"].key, loc["in"].cmd)
           znew == JogNewZ(loc["in"].cur, dz, z)
       IN  /\ z' = znew
           /\ Finish(znew, loc["in"].gcode)
    /\ zLock' = "free"
    /\ UNCHANGED << prog, step, feed, CURRENT, curLock, cache, cacheLock, dyn,
                    resp, keysLeft, getsLeft, builds, st, callsLeft, batch >>

(* -------------------------- Cache.get_gcode --------------------------- *)

\* get_gcode has returned text to its caller t: publish_cmd goes on to the
\* carousel tracking or ends; do_GET sends 200 with the text
Returned(t, text) ==
    IF t = "in"
    THEN IF loc[t].cmd \in CAROUSEL_CMDS
         THEN /\ loc' = [ loc EXCEPT ![t].gcode = text ]
              /\ Goto(t, "jog_get")
              /\ UNCHANGED << log, resp >>
         ELSE /\ Finish(z, text)
              /\ UNCHANGED resp
    ELSE /\ resp' = [ code |-> 200, body |-> text, src |-> "cache",
                      cmd |-> loc[t].cmd, key |-> loc[t].key ]
         /\ loc' = [ loc EXCEPT ![t] = NoLoc ]
         /\ Goto(t, "idle")
         /\ UNCHANGED log

\* a variant without mutual exclusion
LockFree_always(lock) == TRUE

\* self._lock is free for a thread that wants it
LockFree(lock) == lock = "free"

\* a variant that keeps the newest entry only
CachePut_newest(c, k, gcode) == [ y \in { k } |-> gcode ]

\* self._cache[k] = gcode
CachePut(c, k, gcode) == Put(c, k, gcode)

\* with self._lock: k in self._cache, return self._cache[k]
CacheHit(t) ==
    /\ pc[t] = "cache"
    /\ LockFree(cacheLock)
    /\ << loc[t].key, loc[t].cmd >> \in DOMAIN cache
    /\ Returned(t, cache[<< loc[t].key, loc[t].cmd >>])
    /\ UNCHANGED << prog, step, feed, CURRENT, curLock, z, zLock, cache, cacheLock,
                    dyn, keysLeft, getsLeft, builds, st, callsLeft, batch >>

\* with self._lock: k not in self._cache
CacheMiss(t) ==
    /\ pc[t] = "cache"
    /\ LockFree(cacheLock)
    /\ << loc[t].key, loc[t].cmd >> \notin DOMAIN cache
    /\ cacheLock' = t
    /\ Goto(t, "build")
    /\ UNCHANGED << prog, step, feed, CURRENT, curLock, z, zLock, cache, dyn, loc,
                    resp, keysLeft, getsLeft, builds, log, st, callsLeft, batch >>

\* gcode = self._build_gcode(key, cmd) returns
CacheBuild(t) ==
    /\ pc[t] = "build"
    /\ build_gcode(loc[t].key, loc[t].cmd) # ValueError
    /\ loc' = [ loc EXCEPT ![t].gcode = build_gcode(loc[t].key, loc[t].cmd) ]
    /\ builds' = Put(builds, << loc[t].key, loc[t].cmd >>,
                     (IF << loc[t].key, loc[t].cmd >> \in DOMAIN builds
                      THEN builds[<< loc[t].key, loc[t].cmd >>] ELSE 0) + 1)
    /\ Goto(t, "store")
    /\ UNCHANGED << prog, step, feed, CURRENT, curLock, z, zLock, cache, cacheLock,
                    dyn, resp, keysLeft, getsLeft, log, st, callsLeft, batch >>

\* a variant whose lock is not released when _build_gcode raises
CacheBuildRaises_locked(t) ==
    /\ pc[t] = "build"
    /\ t \in Http
    /\ build_gcode(loc[t].key, loc[t].cmd) = ValueError
    /\ resp' = [ code |-> 400,
                 body |-> << "bad request: unknown cmd " \o loc[t].cmd >>,
                 src |-> "error", cmd |-> loc[t].cmd, key |-> loc[t].key ]
    /\ loc' = [ loc EXCEPT ![t] = NoLoc ]
    /\ Goto(t, "idle")
    /\ UNCHANGED << prog, step, feed, CURRENT, curLock, z, zLock, cache, cacheLock,
                    dyn, keysLeft, getsLeft, builds, log, st, callsLeft, batch >>

\* self._build_gcode raises ValueError: the with block releases the lock and
\* do_GET's except clause sends 400 (the curses loop publishes known
\* commands only)
CacheBuildRaises(t) ==
    /\ pc[t] = "build"
    /\ t \in Http
    /\ build_gcode(loc[t].key, loc[t].cmd) = ValueError
    /\ cacheLock' = "free"
    /\ resp' = [ code |-> 400,
                 body |-> << "bad request: unknown cmd " \o loc[t].cmd >>,
                 src |-> "error", cmd |-> loc[t].cmd, key |-> loc[t].key ]
    /\ loc' = [ loc EXCEPT ![t] = NoLoc ]
    /\ Goto(t, "idle")
    /\ UNCHANGED << prog, step, feed, CURRENT, curLock, z, zLock, cache, dyn,
                    keysLeft, getsLeft, builds, log, st, callsLeft, batch >>

\* self._cache[k] = gcode; return gcode; the lock is released
CacheStore(t) ==
    /\ pc[t] = "store"
    /\ cache' = CachePut(cache, << loc[t].key, loc[t].cmd >>, loc[t].gcode)
    /\ cacheLock' = "free"
    /\ Returned(t, loc[t].gcode)
    /\ UNCHANGED << prog, step, feed, CURRENT, curLock, z, zLock, dyn, keysLeft,
                    getsLeft, builds, st, callsLeft, batch >>

(* --------------------------- Handler.do_GET --------------------------- *)

\* a variant of the health request that homes the tracked angle
GetHealth_homing(t) ==
    /\ prog = "jog_cli"
    /\ pc[t] = "idle"
    /\ getsLeft > 0
    /\ getsLeft' = getsLeft - 1
    /\ resp' = [ code |-> 200, body |-> << "ok" >>, src |-> "health",
                 cmd |-> "", key |-> NoKey ]
    /\ z' = Some(Deg(-56))
    /\ UNCHANGED << prog, step, feed, CURRENT, curLock, zLock, cache,
                    cacheLock, dyn, pc, loc, keysLeft, builds, log, st,
                    callsLeft, batch >>

\* GET /health
GetHealth(t) ==
    /\ prog = "jog_cli"
    /\ pc[t] = "idle"
    /\ getsLeft > 0
    /\ getsLeft' = getsLeft - 1
    /\ resp' = [ code |-> 200, body |-> << "ok" >>, src |-> "health",
                 cmd |-> "", key |-> NoKey ]
    /\ UNCHANGED << prog, step, feed, CURRENT, curLock, z, zLock, cache, cacheLock,
                    dyn, pc, loc, keysLeft, builds, log, st, callsLeft, batch >>

\* GET of a path that is neither /health nor /g/....gcode
GetOther(t) ==
    /\ prog = "jog_cli"
    /\ pc[t] = "idle"
    /\ getsLeft > 0
    /\ getsLeft' = getsLeft - 1
    /\ resp' = [ code |-> 404, body |-> << "not found" >>, src |-> "none",
                 cmd |-> "", key |-> NoKey ]
    /\ UNCHANGED << prog, step, feed, CURRENT, curLock, z, zLock, cache, cacheLock,
                    dyn, pc, loc, keysLeft, builds, log, st, callsLeft, batch >>

\* GET /g/<cmd>.gcode; with Handler._dyn_lock: cmd in Handler._dyn_gcode,
\* and the stored text is sent with 200
GetDynHit(t, cmd) ==
    /\ prog = "jog_cli"
    /\ pc[t] = "idle"
    /\ getsLeft > 0
    /\ getsLeft' = getsLeft - 1
    /\ cmd \in DOMAIN dyn
    /\ resp' = [ code |-> 200, body |-> dyn[cmd], src |-> "dyn",
                 cmd |-> cmd, key |-> NoKey ]
    /\ UNCHANGED << prog, step, feed, CURRENT, curLock, z, zLock, cache, cacheLock,
                    dyn, pc, loc, keysLeft, builds, log, st, callsLeft, batch >>

\* GET /g/<cmd>.gcode; with Handler._dyn_lock: cmd not in Handler._dyn_gcode
GetDynMiss(t, cmd) ==
    /\ prog = "jog_cli"
    /\ pc[t] = "idle"
    /\ getsLeft > 0
    /\ getsLeft' = getsLeft - 1
    /\ cmd \notin DOMAIN dyn
    /\ loc' = [ loc EXCEPT ![t] = [ NoLoc EXCEPT !.cmd = cmd ] ]
    /\ Goto(t, "key")
    /\ UNCHANGED << prog, step, feed, CURRENT, curLock, z, zLock, cache, cacheLock,
                    dyn, resp, keysLeft, builds, log, st, callsLeft, batch >>

(* ------------------------------ the session --------------------------- *)

\* the input-handling thread: the curses loop and what it calls
InputThread(cmds, settings) ==
    \/ \E k \in settings : SettingKey(k)
    \/ ApplyStep
    \/ ApplyFeed
    \/ \E cmd \in cmds : Publish(cmd)
    \/ ReadKeyStep("in")
    \/ ReadKeyFeed("in")
    \/ ZLockAcquire
    \/ PenZGet
    \/ PenZSet
    \/ G77ZSet
    \/ SetDynamic
    \/ PrintDynamic
    \/ JogZGet
    \/ JogZSet
    \/ CacheHit("in")
    \/ CacheMiss("in")
    \/ CacheBuild("in")
    \/ CacheStore("in")

\* the threads of ThreadingHTTPServer, one per request
HttpThread(t) ==
    \/ GetHealth(t)
    \/ GetOther(t)
    \/ \E cmd \in GetCmds : GetDynHit(t, cmd)
    \/ \E cmd \in GetCmds : GetDynMiss(t, cmd)
    \/ ReadKeyStep(t)
    \/ ReadKeyFeed(t)
    \/ CacheHit(t)
    \/ CacheMiss(t)
    \/ CacheBuild(t)
    \/ CacheBuildRaises(t)
    \/ CacheStore(t)

InitJog == InitSession(MaxKeys, MaxGets)

NextJog ==
    \/ InputThread(ServedCmds, ServedSettingKeys)
    \/ \E t \in Http : HttpThread(t)

Spec == InitJog /\ [][NextJog]_vars

(* a session no HTTP client talks to *)
InitSolo == InitSession(MaxSoloKeys, 0)

NextSolo == InputThread(SoloCmds, SettingKeys)

SpecSolo == InitSolo /\ [][NextSolo]_vars

(* ------- svg_to_gcode: calls on one CarouselState, in any order ------- *)

\* the pens the calls are made with (5 is no slot), and --f_z
CallPens == 1..5
FZ == 600

\* the angles the CarouselState under call starts from
StartAngles ==
    { None } \cup { Some(h) : h \in Deg(-360) .. Deg(360 * ZTurns) }

InitCalls ==
    /\ prog = "svg_to_gcode"
    /\ st \in StartAngles
    /\ callsLeft = MaxCalls
    /\ step = Deg(2)
    /\ feed = 900
    /\ CURRENT = [ step |-> Deg(2), feed |-> 900 ]
    /\ curLock = "free"
    /\ z = None
    /\ zLock = "free"
    /\ cache = << >>
    /\ cacheLock = "free"
    /\ dyn = << >>
    /\ pc = [ t \in Threads |-> "idle" ]
    /\ loc = [ t \in Threads |-> NoLoc ]
    /\ resp = NoResp
    /\ keysLeft = 0
    /\ getsLeft = 0
    /\ builds = << >>
    /\ log = << >>
    /\ NoBatch

JogUnchanged ==
    UNCHANGED << prog, step, feed, CURRENT, curLock, z, zLock, cache, cacheLock, dyn,
                 pc, loc, resp, keysLeft, getsLeft, builds >>

\* g += gcode_home_carousel(st)
CallHome ==
    /\ prog = "svg_to_gcode"
    /\ callsLeft > 0
    /\ callsLeft' = callsLeft - 1
    /\ st' = gcode_home_carousel(st).z
    /\ log' = Append(log, Entry("gcode_home_carousel", 0, NoKey, st, st',
                                gcode_home_carousel(st).lines))
    /\ JogUnchanged
    /\ UNCHANGED batch

\* g += gcode_pen_select_ccw(pen, args.f_z, st)
CallSelect(pen) ==
    /\ prog = "svg_to_gcode"
    /\ callsLeft > 0
    /\ callsLeft' = callsLeft - 1
    /\ st' = gcode_pen_select_ccw(pen, FZ, st).z
    /\ log' = Append(log, Entry("gcode_pen_select_ccw", pen, NoKey, st, st',
                                gcode_pen_select_ccw(pen, FZ, st).lines))
    /\ JogUnchanged
    /\ UNCHANGED batch

NextCalls ==
    \/ CallHome
    \/ \E pen \in CallPens : CallSelect(pen)

SpecCalls == InitCalls /\ [][NextCalls]_vars

(* both programs: the sessions without clients, and the calls *)
SpecCarousel == (InitSolo \/ InitCalls) /\ [][NextSolo \/ NextCalls]_vars

(* ------------------- svg_to_gcode: a run of main ---------------------- *)

\* --f_travel, --f_draw: the defaults
FTravel == 600
FDraw == 300

\* a path of the SVG file: one svgpathtools Line from a to b, in user units
Line(a, b) == [ a |-> a, b |-> b ]

\* the (path, pen) lists load_drawable_paths returns for the modelled files:
\* no stroked path; one stroke; two strokes whose second pen has the lower
\* slot; a stroke and a path of length zero; one horizontal stroke
SvgFiles ==
    { << >>,
      << [ path |-> Line(<< 0, 0 >>, << Mm(4), Mm(3) >>), pen |-> 1 ] >>,
      << [ path |-> Line(<< 0, 0 >>, << Mm(4), Mm(3) >>), pen |-> 2 ],
         [ path |-> Line(<< Mm(4), 0 >>, << 0, Mm(3) >>), pen |-> 1 ] >>,
      << [ path |-> Line(<< 0, 0 >>, << Mm(4), Mm(3) >>), pen |-> 1 ],
         [ path |-> Line(<< Mm(2), Mm(2) >>, << Mm(2), Mm(2) >>),
           pen |-> 3 ] >>,
      << [ path |-> Line(<< 0, 0 >>, << Mm(4), 0 >>), pen |-> 1 ] >>,
      << [ path |-> Line(<< 0, 0 >>, << Mm(4), Mm(3) >>), pen |-> 2 ],
         [ path |-> Line(<< Mm(4), 0 >>, << 0, Mm(3) >>), pen |-> 1 ],
         [ path |-> Line(<< 0, Mm(3) >>, << Mm(4), Mm(3) >>), pen |-> 2 ],
         [ path |-> Line(<< Mm(4), Mm(3) >>, << 0, 0 >>), pen |-> 1 ] >> }

\* the command lines of the modelled runs (args.svg stands for the content
\* of the file it names); step_mm is positive in all of them, so that
\* max(1e-9, args.step_mm) is args.step_mm
ArgsSet ==
    [ svg : SvgFiles,
      D_mm : { Mm(16), 0 },
      fit_frac : { Half, Mm(1), Mm(2) },
      step_mm : { Mm(2), Mm(4) },
      travel_step_mm : { Mm(5), 0 },
      f_travel : { FTravel },
      f_draw : { FDraw },
      f_z : { FZ },
      dot_dwell_s : { -Half, Half \div 2, Mm(1) + Half },
      bbox_pen : { 1, 4, 5 },
      default_pen : { 1, 0 },
      home_carousel : BOOLEAN ]

\* Line.point(t), Line.length(), Line.bbox() of svgpathtools
PathPoint(path, t) ==
    << FAdd(path.a[1], FMul(t, FSub(path.b[1], path.a[1]))),
       FAdd(path.a[2], FMul(t, FSub(path.b[2], path.a[2]))) >>

PathLength(path) ==
    Hypot(FSub(path.b[1], path.a[1]), FSub(path.b[2], path.a[2]))

PathBBox(path) ==
    << Min(path.a[1], path.b[1]), Max(path.a[1], path.b[1]),
       Min(path.a[2], path.b[2]), Max(path.a[2], path.b[2]) >>

RECURSIVE BBoxFrom(_, _, _)
\* compute_svg_bbox: the loop from item i on, bb the bounds so far
BBoxFrom(dr, i, bb) ==
    IF i > Len(dr) THEN bb
    ELSE LET Widen(b) ==
                 BBoxFrom(dr, i + 1,
                          << Min(bb[1], b[1]), Max(bb[2], b[2]),
                             Min(bb[3], b[3]), Max(bb[4], b[4]) >>)
         IN  Widen(PathBBox(dr[i].path))

\* compute_svg_bbox of a list that is not empty: xmin, xmax, ymin, ymax
compute_svg_bbox(dr) == BBoxFrom(dr, 2, PathBBox(dr[1].path))

\* SvgToWallMapper.map_uv
map_uv(m, u, v) ==
    << FAdd(FMul(FSub(u, m.u_center), m.scale), m.wall_cx),
       FAdd(FMul(FSub(v, m.v_center), m.scale), m.wall_cy) >>

\* a variant that leaves the end point out: range(n)
sample_path_uniform_t_open(path, n) ==
    LET Points(n1) ==
            [ i \in 1 .. n1 |-> PathPoint(path, IntDiv(i - 1, n1)) ]
    IN  Points(Max(1, n))

\* sample_path_uniform_t(path, n): the n + 1 points
sample_path_uniform_t(path, n) ==
    LET Points(n1) ==
            [ i \in 1 .. (n1 + 1) |-> PathPoint(path, IntDiv(i - 1, n1)) ]
    IN  Points(Max(1, n))

\* main: n of a path
PathN(path, scale, step_mm) ==
    Max(1, Ceil(FDiv(FMul(PathLength(path), scale), step_mm)))

RECURSIVE DrawLoop(_, _, _, _, _, _)
\* main: for xy in poly_wall[1:], from item i of poly_wall on
DrawLoop(poly_wall, i, xy, D_mm, f_draw, lines) ==
    IF i > Len(poly_wall) THEN [ lines |-> lines, xy |-> xy ]
    ELSE LET Pass(mv) ==
                 DrawLoop(poly_wall, i + 1, mv.xy, D_mm, f_draw,
                          Append(lines, mv.line))
         IN  Pass(wall_xy_to_lr_delta_g1(xy, poly_wall[i], D_mm, f_draw))

\* the state of the jog CLI while the batch converter runs
JogOff ==
    /\ step = Deg(2)
    /\ feed = 900
    /\ CURRENT = [ step |-> Deg(2), feed |-> 900 ]
    /\ curLock = "free"
    /\ z = None
    /\ zLock = "free"
    /\ cache = << >>
    /\ cacheLock = "free"
    /\ dyn = << >>
    /\ pc = [ t \in Threads |-> "idle" ]
    /\ loc = [ t \in Threads |-> NoLoc ]
    /\ resp = NoResp
    /\ keysLeft = 0
    /\ getsLeft = 0
    /\ builds = << >>

\* main starts with the parsed command line
InitMain ==
    /\ prog = "svg_to_gcode"
    /\ JogOff
    /\ log = << >>
    /\ st = None
    /\ callsLeft = 0
    /\ args \in ArgsSet
    /\ drawable = << >>
    /\ bpc = "validate"
    /\ mapper = << >>
    /\ g = << >>
    /\ cur_xy = << 0, 0 >>
    /\ idx = 0
    /\ files = << >>
    /\ seg = << >>

\* raise SystemExit(msg)
SystemExit(msg) == bpc' = "SystemExit: " \o msg

Exited ==
    bpc \in { "SystemExit: --D_mm must be > 0",
              "SystemExit: --bbox_pen must be 1..4",
              "SystemExit: --default_pen must be 1..4",
              "SystemExit: --fit_frac must be in (0, 1.5]",
              "SystemExit: No drawable stroked paths found (stroke != none).",
              "SystemExit: Degenerate SVG bbox (zero width/height)." }

\* a variant of the validation that leaves fit_frac unchecked
Validate_nofit ==
    /\ bpc = "validate"
    /\ IF args.D_mm <= 0 THEN SystemExit("--D_mm must be > 0")
       ELSE IF args.bbox_pen \notin DOMAIN PEN_SLOTS_Z
       THEN SystemExit("--bbox_pen must be 1..4")
       ELSE IF args.default_pen \notin DOMAIN PEN_SLOTS_Z
       THEN SystemExit("--default_pen must be 1..4")
       ELSE bpc' = "load"
    /\ JogUnchanged
    /\ UNCHANGED << log, st, callsLeft, args, drawable, mapper, g, cur_xy,
                    idx, files, seg >>

\* main: the basic validation
Validate ==
    /\ bpc = "validate"
    /\ IF args.D_mm <= 0 THEN SystemExit("--D_mm must be > 0")
       ELSE IF args.bbox_pen \notin DOMAIN PEN_SLOTS_Z
       THEN SystemExit("--bbox_pen must be 1..4")
       ELSE IF args.default_pen \notin DOMAIN PEN_SLOTS_Z
       THEN SystemExit("--default_pen must be 1..4")
       ELSE IF ~(0 < args.fit_frac /\ args.fit_frac <= Mm(1) + Half)
       THEN SystemExit("--fit_frac must be in (0, 1.5]")
       ELSE bpc' = "load"
    /\ JogUnchanged
    /\ UNCHANGED << log, st, callsLeft, args, drawable, mapper, g, cur_xy,
                    idx, files, seg >>

\* main: drawable, color_to_pen = load_drawable_paths(...)
Load ==
    /\ bpc = "load"
    /\ drawable' = args.svg
    /\ IF args.svg = << >>
       THEN SystemExit("No drawable stroked paths found (stroke != none).")
       ELSE bpc' = "measure"
    /\ JogUnchanged
    /\ UNCHANGED << log, st, callsLeft, args, mapper, g, cur_xy, idx, files,
                    seg >>

\* main: the bounding box, the scale, the mapper and the mapped corners
Measure ==
    /\ bpc = "measure"
    /\ \E bb \in { compute_svg_bbox(drawable) } :
       \E svg_w \in { FSub(bb[2], bb[1]) } :
       \E svg_h \in { FSub(bb[4], bb[3]) } :
          IF svg_w <= 0 \/ svg_h <= 0
          THEN /\ SystemExit("Degenerate SVG bbox (zero width/height).")
               /\ UNCHANGED mapper
          ELSE \E target \in { FMul(args.fit_frac, args.D_mm) } :
               \E m \in { [ u_center |-> FDiv(FAdd(bb[1], bb[2]), Mm(2)),
                            v_center |-> FDiv(FAdd(bb[3], bb[4]), Mm(2)),
                            scale |-> Min(FDiv(target, svg_w),
                                          FDiv(target, svg_h)),
                            wall_cx |-> FDiv(args.D_mm, Mm(2)),
                            wall_cy |-> FDiv(args.D_mm, Mm(2)) ] } :
                  /\ mapper' =
                        [ mapper |-> m,
                          bbox_corners_wall |->
                              << map_uv(m, bb[1], bb[3]),
                                 map_uv(m, bb[2], bb[3]),
                                 map_uv(m, bb[2], bb[4]),
                                 map_uv(m, bb[1], bb[4]) >> ]
                  /\ bpc' = "bbox_begin"
    /\ JogUnchanged
    /\ UNCHANGED << log, st, callsLeft, args, drawable, g, cur_xy, idx,
                    files, seg >>

\* the log entries of the calls made on a CarouselState
HomeEntry(stz) ==
    Entry("gcode_home_carousel", 0, NoKey, stz, gcode_home_carousel(stz).z,
          gcode_home_carousel(stz).lines)

SelectEntry(pen, f_z, stz) ==
    Entry("gcode_pen_select_ccw", pen, NoKey, stz,
          gcode_pen_select_ccw(pen, f_z, stz).z,
          gcode_pen_select_ccw(pen, f_z, stz).lines)

\* main: g += gcode_header(); st = CarouselState(); the home block if
\* args.home_carousel; cur_xy = (wall_cx, wall_cy); for the bbox program
\* also pen = args.bbox_pen and its select
Begin(with_select) ==
    \E home \in { IF args.home_carousel THEN gcode_home_carousel(None)
                  ELSE [ z |-> None, lines |-> << >> ] } :
    \E sel \in { IF with_select
                 THEN gcode_pen_select_ccw(args.bbox_pen, args.f_z, home.z)
                 ELSE [ z |-> home.z, lines |-> << >> ] } :
        /\ g' = gcode_header \o home.lines \o sel.lines
        /\ st' = sel.z
        /\ log' = log \o (IF args.home_carousel THEN << HomeEntry(None) >>
                          ELSE << >>)
                      \o (IF with_select
                          THEN << SelectEntry(args.bbox_pen, args.f_z,
                                              home.z) >>
                          ELSE << >>)
        /\ cur_xy' = << mapper.mapper.wall_cx, mapper.mapper.wall_cy >>
        /\ idx' = 1

BboxBegin ==
    /\ bpc = "bbox_begin"
    /\ Begin(TRUE)
    /\ bpc' = "bbox_loop"
    /\ JogUnchanged
    /\ UNCHANGED << callsLeft, args, drawable, mapper, files, seg >>

\* main: one pass of for xy in bbox_corners_wall
BboxCorner ==
    /\ bpc = "bbox_loop"
    /\ idx <= Len(mapper.bbox_corners_wall)
    /\ \E mv \in { move_xy_segmented(cur_xy, mapper.bbox_corners_wall[idx],
                                      args.D_mm, args.f_travel,
                                      args.travel_step_mm) } :
       \E up \in { gcode_pen_up(args.bbox_pen, args.f_z, st) } :
           /\ cur_xy' = mv.xy
           /\ g' = g \o mv.lines \o gcode_pen_down
                     \o gcode_dwell(args.dot_dwell_s) \o up.lines
           /\ st' = up.z
           /\ log' = Append(log, SelectEntry(args.bbox_pen, args.f_z, st))
    /\ idx' = idx + 1
    /\ JogUnchanged
    /\ UNCHANGED << callsLeft, args, drawable, bpc, mapper, files, seg >>

\* write_lines(path, lines)
write_lines(path, lines) == files' = Put(files, path, lines)

\* main: write_lines(args.out_bbox, g_bbox)
BboxWrite ==
    /\ bpc = "bbox_loop"
    /\ idx > Len(mapper.bbox_corners_wall)
    /\ write_lines("bbox_dots.gcode", g)
    /\ bpc' = "draw_begin"
    /\ JogUnchanged
    /\ UNCHANGED << log, st, callsLeft, args, drawable, mapper, g, cur_xy,
                    idx, seg >>

DrawBegin ==
    /\ bpc = "draw_begin"
    /\ Begin(FALSE)
    /\ bpc' = "draw_loop"
    /\ JogUnchanged
    /\ UNCHANGED << callsLeft, args, drawable, mapper, files, seg >>

\* main: poly_wall of a path
PolyWall(path) ==
    LET Mapped(pts) ==
            [ i \in 1 .. Len(pts) |->
                  map_uv(mapper.mapper, pts[i][1], pts[i][2]) ]
    IN  Mapped(sample_path_uniform_t(
                   path, PathN(path, mapper.mapper.scale, args.step_mm)))

\* a variant that puts the pen down before the travel to the path
DrawPath_early ==
    /\ bpc = "draw_loop"
    /\ idx <= Len(drawable)
    /\ \E pen \in { drawable[idx].pen } :
       \E poly_wall \in { PolyWall(drawable[idx].path) } :
       \E sel \in { gcode_pen_select_ccw(pen, args.f_z, st) } :
       \E mv \in { move_xy_segmented(cur_xy, poly_wall[1], args.D_mm,
                                      args.f_travel, args.travel_step_mm) } :
       \E dr \in { DrawLoop(poly_wall, 2, mv.xy, args.D_mm, args.f_draw,
                             << >>) } :
       \E up \in { gcode_pen_up(pen, args.f_z, sel.z) } :
           /\ g' = g \o sel.lines \o gcode_pen_down \o mv.lines \o dr.lines
                     \o up.lines
           /\ cur_xy' = dr.xy
           /\ st' = up.z
           /\ log' = log \o << SelectEntry(pen, args.f_z, st),
                               SelectEntry(pen, args.f_z, sel.z) >>
    /\ idx' = idx + 1
    /\ JogUnchanged
    /\ UNCHANGED << callsLeft, args, drawable, bpc, mapper, files, seg >>

\* main: one pass of for path, pen in drawable
DrawPath ==
    /\ bpc = "draw_loop"
    /\ idx <= Len(drawable)
    /\ \E pen \in { drawable[idx].pen } :
       \E poly_wall \in { PolyWall(drawable[idx].path) } :
       \E sel \in { gcode_pen_select_ccw(pen, args.f_z, st) } :
       \E mv \in { move_xy_segmented(cur_xy, poly_wall[1], args.D_mm,
                                      args.f_travel, args.travel_step_mm) } :
       \E dr \in { DrawLoop(poly_wall, 2, mv.xy, args.D_mm, args.f_draw,
                             << >>) } :
       \E up \in { gcode_pen_up(pen, args.f_z, sel.z) } :
           /\ g' = g \o sel.lines \o mv.lines \o gcode_pen_down \o dr.lines
                     \o up.lines
           /\ cur_xy' = dr.xy
           /\ st' = up.z
           /\ log' = log \o << SelectEntry(pen, args.f_z, st),
                               SelectEntry(pen, args.f_z, sel.z) >>
    /\ idx' = idx + 1
    /\ JogUnchanged
    /\ UNCHANGED << callsLeft, args, drawable, bpc, mapper, files, seg >>

\* main: write_lines(args.out_draw, g_draw)
DrawWrite ==
    /\ bpc = "draw_loop"
    /\ idx > Len(drawable)
    /\ write_lines("drawing.gcode", g)
    /\ bpc' = "done"
    /\ JogUnchanged
    /\ UNCHANGED << log, st, callsLeft, args, drawable, mapper, g, cur_xy,
                    idx, seg >>

NextMain ==
    \/ Validate
    \/ Load
    \/ Measure
    \/ BboxBegin
    \/ BboxCorner
    \/ BboxWrite
    \/ DrawBegin
    \/ DrawPath
    \/ DrawWrite

SpecMain == InitMain /\ [][NextMain]_vars

(* ------------ svg_to_gcode: move_xy_segmented on its own --------------- *)

\* the wall points the calls are made with: corners and centre of the wall,
\* points next to them, and points a tick or a few off the axes
SegPoints ==
    { << 0, 0 >>, << Mm(12), 0 >>, << 1, 0 >>, << 66, 0 >>, << Mm(7), 3 >>,
      << Mm(8), Mm(8) >>, << Mm(3), Mm(4) >>, << 3, Mm(5) >>,
      << Mm(15), Mm(1) + Half >>, << Mm(4), Mm(5) >>, << Mm(16), Mm(16) >> }

\* max_step_mm of the calls
SegSteps == { -Mm(1), 0, Mm(2), Mm(4), Mm(5) }

InitSeg ==
    /\ prog = "svg_to_gcode"
    /\ JogOff
    /\ log = << >>
    /\ st = None
    /\ callsLeft = 0
    /\ args = << >>
    /\ drawable = << >>
    /\ bpc = "call"
    /\ mapper = << >>
    /\ g = << >>
    /\ cur_xy \in SegPoints
    /\ idx = 0
    /\ files = << >>
    /\ seg \in [ cur_xy : { cur_xy }, target_xy : SegPoints,
                 max_step_mm : SegSteps ]

\* lines, cur_xy = move_xy_segmented(cur_xy, target_xy, D_mm, feed, max_step)
CallSegmented ==
    /\ bpc = "call"
    /\ \E mv \in { move_xy_segmented(seg.cur_xy, seg.target_xy, Mm(16),
                                      FTravel, seg.max_step_mm) } :
           /\ g' = mv.lines
           /\ cur_xy' = mv.xy
    /\ bpc' = "returned"
    /\ JogUnchanged
    /\ UNCHANGED << log, st, callsLeft, args, drawable, mapper, idx, files,
                    seg >>

SpecSeg == InitSeg /\ [][CallSegmented]_vars

(* ---------------- every program either script emits ------------------- *)

\* a jog session of the input thread alone, or a run of main, or a call of
\* move_xy_segmented on its own
InitPrograms == InitSolo \/ InitMain \/ InitSeg

NextPrograms == NextSolo \/ NextMain \/ CallSegmented

SpecPrograms == InitPrograms /\ [][NextPrograms]_vars

(* ====================== the claims about the code ===================== *)

\* the slot table as the specification states it: 89, 161, 233, 305
SlotAngle == << Deg(89), Deg(161), Deg(233), Deg(305) >>

\* a log entry of a completed pen select (jog: P<n>_UP / P<n>_DOWN; batch:
\* a gcode_pen_select_ccw call that returned)
IsSelect(e) == e.pen \in 1..4 /\ e.gcode # ValueError

IsHome(e) == e.cmd \in { "G77", "gcode_home_carousel" }

\* the 'G1 Z' line of a select's program and the feed it carries
TargetLine(e) == IF e.cmd \in PEN_CMDS THEN e.gcode[4] ELSE e.gcode[2]
SelectFeed(e) == IF e.cmd \in PEN_CMDS THEN 2000 ELSE FZ
ZLine(v, f) == "G1 Z" \o Fmt3(v) \o " F" \o ToString(f)

Entries == { log[i] : i \in 1..Len(log) }

(* C1: CCW-only.  Every completed pen select that started from a known    *)
(* angle, in the jog session and in the batch converter's calls, has a     *)
(* target that is at least the angle held before it and congruent to the   *)
(* slot's table angle modulo 360; the target is the angle stored and the   *)
(* one the emitted 'G1 Z' line carries.                                    *)
C1_CcwOnly ==
    \A e \in Entries :
        (IsSelect(e) /\ IsKnown(e.z0)) =>
            /\ IsKnown(e.z1)
            /\ Val(e.z1) >= Val(e.z0)
            /\ (Val(e.z1) - SlotAngle[e.pen]) % Deg(360) = 0
            /\ TargetLine(e) = ZLine(Val(e.z1), SelectFeed(e))

\* a jog select made from a known angle beyond the slot angle: it wrapped
C1_Witness ==
    \E e \in Entries :
        /\ e.cmd \in PEN_CMDS
        /\ IsKnown(e.z0)
        /\ Val(e.z0) > SlotAngle[e.pen]
        /\ Val(e.z1) = SlotAngle[e.pen] + Deg(360)

\* base + 360*k for the smallest k >= 0 with base + 360*k >= current
RefTarget(current, base) ==
    LET Ks == 0 .. (ZTurns + 3)
        k == CHOOSE n \in Ks :
                 /\ base + Deg(360) * n >= current
                 /\ \A m \in 0 .. (n - 1) : base + Deg(360) * m < current
    IN  base + Deg(360) * k

(* C2: the select target is the reference value.  For every slot and every *)
(* starting angle of a gcode_pen_select_ccw call: the slot's table angle   *)
(* when the angle is unknown, otherwise the smallest base + 360*k (k >= 0) *)
(* that is >= the angle; the angle stored afterwards is that target; and   *)
(* the two examples of the specification: -56 gives 89, 120 gives 449.     *)
C2_TargetIsReference ==
    /\ \A e \in Entries :
          IsSelect(e) =>
              /\ e.z1 = Some(IF e.z0 = None THEN SlotAngle[e.pen]
                             ELSE RefTarget(Val(e.z0), SlotAngle[e.pen]))
              /\ TargetLine(e) = ZLine(Val(e.z1), SelectFeed(e))
    /\ ccw_only_target(Some(Deg(-56)), Deg(89)) = Deg(89)
    /\ ccw_only_target(Some(Deg(120)), Deg(89)) = Deg(449)
    /\ ccw_only_target(None, Deg(89)) = Deg(89)

\* the batch select of slot 1 called with the angle at 120: it returned 449
C2_Witness ==
    \E e \in Entries :
        /\ e.cmd = "gcode_pen_select_ccw"
        /\ e.pen = 1
        /\ e.z0 = Some(Deg(120))
        /\ e.z1 = Some(Deg(449))
        /\ e.gcode = << "G90", "G1 Z449.000 F600", "G91" >>

\* the angle the running program stores: App._z, or the CarouselState's z
Stored == IF prog = "jog_cli" THEN z ELSE st

\* no operation is under way in the input-handling thread
Quiet == pc["in"] = "idle"

\* the log is a chain: each operation starts from the angle the one before
\* left, and the last one left the angle that is stored now
Chained ==
    /\ \A i \in 1 .. (Len(log) - 1) : log[i + 1].z0 = log[i].z1
    /\ (Quiet /\ log # << >>) => Stored = log[Len(log)].z1

\* a home was completed before operation i of the log
HomedBefore(i) == \E j \in 1 .. (i - 1) : IsHome(log[j])

(* C3, as the specification states it: once the angle has been set by a    *)
(* home, no later operation of the jog session (pen select, CAR_CCW,       *)
(* CAR_CW, another home) makes the stored angle smaller than it was.       *)
C3_NeverDecreases ==
    \A i \in 1 .. Len(log) :
        (HomedBefore(i) /\ IsKnown(log[i].z0)) =>
            /\ IsKnown(log[i].z1)
            /\ Val(log[i].z1) >= Val(log[i].z0)

(* C3, amended: once the angle has been set by a home it stays known; pen  *)
(* selects and CAR_CCW jogs never make it smaller; the operations that     *)
(* lower it are a CAR_CW jog, by exactly the step of the key it used, and  *)
(* another home, which puts it back to -56.                                *)
C3_OnlyCwAndHomeLower ==
    /\ Chained
    /\ \A i \in 1 .. Len(log) :
          HomedBefore(i) =>
              LET e == log[i] IN
              /\ IsKnown(e.z0)
              /\ IsKnown(e.z1)
              /\ (e.cmd \in PEN_CMDS \cup { "CAR_CCW" }) =>
                     Val(e.z1) >= Val(e.z0)
              /\ Val(e.z1) < Val(e.z0) =>
                     \/ /\ e.cmd = "CAR_CW"
                        /\ Val(e.z1) = Val(e.z0) - e.key.step
                     \/ /\ e.cmd = "G77"
                        /\ e.z1 = Some(Deg(-56))

\* after a home: a select that moved the angle up, then a CAR_CW jog that
\* took it down again
C3_Witness ==
    \E i \in 1 .. (Len(log) - 1) :
        /\ HomedBefore(i)
        /\ log[i].cmd \in PEN_CMDS
        /\ Val(log[i].z1) > Val(log[i].z0)
        /\ log[i + 1].cmd = "CAR_CW"
        /\ Val(log[i + 1].z1) < Val(log[i].z1)

\* no operation on the carousel angle has started yet in the jog session
Untouched ==
    /\ \A e \in Entries : e.cmd \in DOMAIN MOTOR_CMDS
    /\ loc["in"].cmd \notin SPECIAL_CMDS

(* C4, as the specification states it: the angle first becomes known only  *)
(* through a home, which sets it to -56; a pen select or a carousel jog    *)
(* made while the angle is unknown leaves it unknown.                      *)
C4_OnlyHomeMakesKnown ==
    /\ (prog = "jog_cli" /\ Untouched) => z = None
    /\ \A e \in Entries :
          (e.z0 = None /\ e.z1 # None) =>
              (IsHome(e) /\ e.z1 = Some(Deg(-56)))

(* C4, amended: the angle is unknown when the jog session starts and until *)
(* its first carousel operation; from unknown it becomes known through a   *)
(* home, which sets it to -56, or through a pen select, which sets it to   *)
(* the slot's table angle; a carousel jog, a motor jog and a select of a   *)
(* pen that is no slot leave an unknown angle unknown.                     *)
C4_HomeOrSelectMakesKnown ==
    /\ (prog = "jog_cli" /\ Untouched) => z = None
    /\ Chained
    /\ \A e \in Entries :
          e.z0 = None =>
              /\ IsHome(e) => e.z1 = Some(Deg(-56))
              /\ IsSelect(e) => e.z1 = Some(SlotAngle[e.pen])
              /\ (~IsHome(e) /\ ~IsSelect(e)) => e.z1 = None

\* in the jog session: a carousel jog made while the angle was unknown left
\* it unknown, and the pen select after it made it known
C4_Witness ==
    \E i \in 1 .. (Len(log) - 1) :
        /\ log[i].cmd \in CAROUSEL_CMDS
        /\ log[i].z0 = None
        /\ log[i].z1 = None
        /\ log[i + 1].cmd \in PEN_CMDS
        /\ log[i + 1].z1 = Some(SlotAngle[log[i + 1].pen])

\* line occurs in the program text
HasLine(gcode, line) == \E n \in 1 .. Len(gcode) : gcode[n] = line

(* C5: a home always returns its program and sets the angle to -56,        *)
(* whatever the angle was before (unknown or known); two homes in a row    *)
(* leave the same angle and the same program as one; a select of slot 1    *)
(* right after a home has target 89 and leaves the angle at 89.            *)
C5_HomeResets ==
    /\ Chained
    /\ \A e \in Entries :
          IsHome(e) =>
              /\ e.z1 = Some(Deg(-56))
              /\ e.gcode # ValueError
              /\ HasLine(e.gcode, "G77")
              /\ HasLine(e.gcode, "G92 Z-56")
    /\ \A i \in 1 .. (Len(log) - 1) :
          /\ (IsHome(log[i]) /\ IsHome(log[i + 1])) =>
                 /\ log[i + 1].z1 = log[i].z1
                 /\ log[i + 1].gcode = log[i].gcode
          /\ (IsHome(log[i]) /\ IsSelect(log[i + 1]) /\ log[i + 1].pen = 1) =>
                 /\ log[i + 1].z1 = Some(Deg(89))
                 /\ TargetLine(log[i + 1]) =
                        ZLine(Deg(89), SelectFeed(log[i + 1]))
    /\ (prog = "jog_cli" /\ "G77" \in DOMAIN dyn) => dyn["G77"] = G77Lines

\* a home from a known angle other than -56, a second home, then slot 1
C5_Witness ==
    \E i \in 1 .. (Len(log) - 2) :
        /\ IsHome(log[i])
        /\ IsKnown(log[i].z0)
        /\ log[i].z0 # Some(Deg(-56))
        /\ IsHome(log[i + 1])
        /\ IsSelect(log[i + 2])
        /\ log[i + 2].pen = 1
        /\ log[i + 2].z1 = Some(Deg(89))

\* the signed step of a carousel jog: CCW positive, CW negative
Signed(e) == IF e.cmd = "CAR_CCW" THEN e.key.step ELSE -e.key.step

(* C6: a carousel jog from a known angle adds exactly +step (CAR_CCW) or   *)
(* -step (CAR_CW) of the key it used, the value its incremental 'G1 Z'     *)
(* line carries, with no CCW-only enforcement; CAR_CCW then CAR_CW with    *)
(* the same step restores the angle; from an unknown angle the jog leaves  *)
(* it unknown; motor jogs never change the angle.                          *)
C6_JogTracks ==
    /\ Chained
    /\ \A e \in Entries :
          /\ e.cmd \in CAROUSEL_CMDS =>
                /\ e.key.step > 0
                /\ e.gcode = << "G21", "G91", "M17",
                                "G1 Z" \o Fmt3(Signed(e)) \o " F"
                                    \o ToString(e.key.feed) >>
                /\ IsKnown(e.z0) => e.z1 = Some(Val(e.z0) + Signed(e))
                /\ e.z0 = None => e.z1 = None
          /\ e.cmd \in DOMAIN MOTOR_CMDS => e.z1 = e.z0
    /\ \A i \in 1 .. (Len(log) - 1) :
          ( /\ log[i].cmd = "CAR_CCW"
            /\ log[i + 1].cmd = "CAR_CW"
            /\ log[i].key.step = log[i + 1].key.step ) =>
              log[i + 1].z1 = log[i].z0

\* from a known angle: CAR_CCW, then CAR_CW with the same step took the angle
\* down again, back to where the first jog began
C6_Witness ==
    \E i \in 1 .. (Len(log) - 1) :
        /\ log[i].cmd = "CAR_CCW"
        /\ IsKnown(log[i].z0)
        /\ log[i + 1].cmd = "CAR_CW"
        /\ log[i + 1].key.step = log[i].key.step
        /\ Val(log[i + 1].z1) < Val(log[i + 1].z0)
        /\ log[i + 1].z1 = log[i].z0

\* the cache key of the get_gcode call thread t is in
CallKey(t) == << loc[t].key, loc[t].cmd >>

(* C7: under every interleaving of the input thread's and the HTTP         *)
(* threads' get_gcode calls, _build_gcode completes at most once for each  *)
(* (step, feed, cmd): it runs only under the lock and only for a key not   *)
(* stored yet, its result is stored before the lock is released, and every *)
(* other call for the key is served the stored text.                       *)
C7_BuildOnce ==
    /\ \A k \in DOMAIN builds :
          /\ builds[k] <= 1
          /\ \/ k \in DOMAIN cache
             \/ \E t \in Threads : pc[t] = "store" /\ CallKey(t) = k
    /\ \A t \in Threads :
          pc[t] \in { "build", "store" } =>
              /\ cacheLock = t
              /\ CallKey(t) \notin DOMAIN cache
    /\ \A k \in DOMAIN cache : k \in DOMAIN builds
    /\ resp.src = "cache" =>
          /\ << resp.key, resp.cmd >> \in DOMAIN cache
          /\ resp.body = cache[<< resp.key, resp.cmd >>]

\* the input thread and an HTTP thread both asked for one key and got the
\* same text, and it was built once
C7_Witness ==
    \E e \in Entries :
        /\ << e.key, e.cmd >> \in DOMAIN builds
        /\ builds[<< e.key, e.cmd >>] = 1
        /\ resp.src = "cache"
        /\ resp.key = e.key
        /\ resp.cmd = e.cmd
        /\ resp.body = e.gcode

(* C8: cache entries are write-once and never evicted.  In every step an   *)
(* entry that exists still exists afterwards with the same text; every     *)
(* stored text is the value _build_gcode computes from (step, feed, cmd);  *)
(* every text get_gcode hands out, to an HTTP response or to publish_cmd,  *)
(* is the stored one, so two gets with equal key and cmd give equal text.  *)
C8_WriteOnce ==
    [][ /\ \A k \in DOMAIN cache :
              k \in DOMAIN cache' /\ cache'[k] = cache[k]
        /\ \A k \in DOMAIN cache' : cache'[k] = build_gcode(k[1], k[2])
        /\ resp'.src = "cache" =>
              /\ << resp'.key, resp'.cmd >> \in DOMAIN cache'
              /\ resp'.body = cache'[<< resp'.key, resp'.cmd >>]
        /\ \A i \in 1 .. Len(log') :
              log'[i].cmd \notin PEN_CMDS \cup { "G77" } =>
                  /\ << log'[i].key, log'[i].cmd >> \in DOMAIN cache'
                  /\ log'[i].gcode = cache'[<< log'[i].key, log'[i].cmd >>]
      ]_vars

\* two entries are stored, and a text served over HTTP is the one the input
\* thread was given for the same key before
C8_Witness ==
    /\ Cardinality(DOMAIN cache) >= 2
    /\ resp.src = "cache"
    /\ \E e \in Entries :
          /\ e.key = resp.key
          /\ e.cmd = resp.cmd
          /\ e.gcode = resp.body
          /\ \E k \in DOMAIN cache : k # << e.key, e.cmd >>

\* the commands the program treats as dynamic: pen selects and home
DynamicCmds == PEN_CMDS \cup { "G77" }

(* C9: dynamic commands never hit the static cache.  Under every           *)
(* interleaving of publish_cmd calls and HTTP GETs, no pen select and no   *)
(* home (G77) is computed by _build_gcode, stored in the Cache, or served  *)
(* from it.                                                                *)
C9_DynamicNeverCached ==
    /\ \A k \in DOMAIN builds : k[2] \notin DynamicCmds
    /\ \A k \in DOMAIN cache : k[2] \notin DynamicCmds
    /\ resp.src = "cache" => resp.cmd \notin DynamicCmds

\* two pen selects i < j of the same command with no home between them
SamePenNoHome(i, j) ==
    /\ i < j
    /\ log[i].cmd \in PEN_CMDS
    /\ log[j].cmd = log[i].cmd
    /\ \A m \in (i + 1) .. (j - 1) : ~IsHome(log[m])

(* C10: the program of a pen select depends on the carousel angle.  Two    *)
(* selects of the same command with no home between them give different    *)
(* texts exactly when their targets differ, which happens only if the      *)
(* tracked angle differed between the two calls; a select of slot 1 that   *)
(* gave 89 and a later one made with the angle beyond 89 (at most 449)     *)
(* give 'G1 Z89.000' and then 'G1 Z449.000'.                               *)
C10_TextFollowsAngle ==
    \A i \in 1 .. Len(log) : \A j \in 1 .. Len(log) :
        SamePenNoHome(i, j) =>
            /\ (log[i].gcode # log[j].gcode) <=> (log[i].z1 # log[j].z1)
            /\ (log[i].gcode # log[j].gcode) => (log[i].z0 # log[j].z0)
            /\ ( /\ log[i].pen = 1
                 /\ log[i].z1 = Some(Deg(89))
                 /\ Val(log[j].z0) > Deg(89)
                 /\ Val(log[j].z0) <= Deg(449) ) =>
                   /\ log[i].gcode[4] = "G1 Z89.000 F2000"
                   /\ log[j].gcode[4] = "G1 Z449.000 F2000"

\* select slot 1, jog CCW past 89, select slot 1 again: 89 and then 449
C10_Witness ==
    \E i \in 1 .. (Len(log) - 2) :
        /\ SamePenNoHome(i, i + 2)
        /\ log[i].pen = 1
        /\ log[i].gcode[4] = "G1 Z89.000 F2000"
        /\ log[i + 1].cmd = "CAR_CCW"
        /\ Val(log[i + 1].z1) > Deg(89)
        /\ log[i + 2].gcode[4] = "G1 Z449.000 F2000"

\* thread t is in _build_gcode for a command it raises ValueError on
Raising(t) ==
    pc[t] = "build" /\ build_gcode(loc[t].key, loc[t].cmd) = ValueError

(* C11: a request for a command outside the closed set fails with HTTP 400 *)
(* sent to that requester and changes nothing: the step in which           *)
(* _build_gcode raises leaves the cache, the build counts, the carousel    *)
(* angle, the jog parameters and the dynamic table as they were and        *)
(* releases the cache lock; the unknown command is never stored or served  *)
(* with 200; the lock is only ever held by a thread that is building or    *)
(* storing, so later requests for valid commands get through.              *)
C11_UnknownCmdRejected ==
    [][ /\ \A t \in Http :
              (Raising(t) /\ pc'[t] # "build") =>
                  /\ resp'.code = 400
                  /\ resp'.cmd = loc[t].cmd
                  /\ pc'[t] = "idle"
                  /\ cacheLock' = "free"
                  /\ cache' = cache
                  /\ builds' = builds
                  /\ z' = z
                  /\ CURRENT' = CURRENT
                  /\ step' = step
                  /\ feed' = feed
                  /\ dyn' = dyn
                  /\ log' = log
        /\ resp'.cmd = "BOGUS" => resp'.code = 400
        /\ \A k \in DOMAIN cache' : k[2] # "BOGUS"
        /\ "BOGUS" \notin DOMAIN dyn'
        /\ cacheLock' # "free" => pc'[cacheLock'] \in { "build", "store" }
      ]_vars

\* the request for BOGUS was answered with 400, and the input thread, which
\* took the cache lock after that, has built the program of a valid command
C11_Witness ==
    /\ resp.code = 400
    /\ resp.cmd = "BOGUS"
    /\ pc["in"] = "store"
    /\ cacheLock = "in"
    /\ loc["in"].gcode = build_gcode(loc["in"].key, loc["in"].cmd)

\* the positioning mode a program text leaves the firmware in: that of its
\* last G90 / G91 line ("none" if it has neither)
ModeAfter(gcode) ==
    LET I == { i \in 1 .. Len(gcode) : gcode[i] \in { "G90", "G91" } }
    IN  IF I = { } THEN "none"
        ELSE gcode[CHOOSE i \in I : \A j \in I : j <= i]

\* the places of the line in a program text
Places(gcode, line) == { i \in 1 .. Len(gcode) : gcode[i] = line }

(* C12: every pen-select block, of the batch converter and of the jog CLI, *)
(* switches to absolute positioning (G90), emits exactly one 'G1 Z' move,  *)
(* to the computed target, and then switches back to incremental (G91),    *)
(* so the positioning mode after the block is incremental.                 *)
C12_SelectEndsIncremental ==
    \A e \in Entries :
        IsSelect(e) =>
            LET move == ZLine(Val(e.z1), SelectFeed(e))
                at == Places(e.gcode, move)
            IN  /\ Cardinality(at) = 1
                /\ \A i \in 1 .. Len(e.gcode) :
                      i \notin at =>
                          e.gcode[i] \in { "G21", "G90", "G91", "M17", "G101" }
                /\ \E i \in Places(e.gcode, "G90") : \A j \in at : i < j
                /\ \E i \in Places(e.gcode, "G91") : \A j \in at : j < i
                /\ ModeAfter(e.gcode) = "G91"

\* a home program as the claim describes it: G90, then G77, then the
\* reference reset, ending in incremental mode
IsHomeBlock(gcode) ==
    /\ \E i \in Places(gcode, "G90") : \E j \in Places(gcode, "G77") :
          \E k \in Places(gcode, "G92 Z-56") : i < j /\ j < k
    /\ ModeAfter(gcode) = "G91"

(* C13: every home block is absolute positioning, G77, 'G92 Z-56', ending  *)
(* in incremental mode (G91), and every emission of one, by the G77 key    *)
(* (build_g77_gcode) or by the G77 branch of Cache._build_gcode, also sets *)
(* the carousel angle to -56.                                              *)
C13_HomeBlock ==
    /\ \A e \in Entries :
          IsHome(e) => (IsHomeBlock(e.gcode) /\ e.z1 = Some(Deg(-56)))
    /\ ("G77" \in DOMAIN dyn) => IsHomeBlock(dyn["G77"])
    /\ \A k \in DOMAIN cache :
          k[2] = "G77" => (IsHomeBlock(cache[k]) /\ z = Some(Deg(-56)))

\* the lines that are no G1 move: mode and unit words, the homing pair, the
\* pen pulse and the dwell lines of the runs modelled
NoMoveLines ==
    { "G21", "G90", "G91", "M17", "G77", "G92 Z-56", "G101",
      "G4 S0.000", "G4 S0.250", "G4 S1.500" }

\* every complete program in the state: the files the batch converter
\* wrote, the programs the jog CLI published, cached or kept for /g/
Programs ==
    { files[n] : n \in DOMAIN files }
        \cup { e.gcode : e \in { d \in Entries : prog = "jog_cli" } }
        \cup { cache[k] : k \in DOMAIN cache }
        \cup { dyn[c] : c \in DOMAIN dyn }

\* the places of the G1 lines of a program
MovePlaces(gcode) ==
    { i \in 1 .. Len(gcode) : gcode[i] \notin NoMoveLines }

\* G21, G91 and M17 stand, in this order, before every G1 line
SetupFirst(gcode) ==
    \E i \in Places(gcode, "G21") : \E j \in Places(gcode, "G91") :
        \E k \in Places(gcode, "M17") :
            /\ i < j
            /\ j < k
            /\ \A m \in MovePlaces(gcode) : k < m

(* C14: every emitted program, each output file of the batch converter and *)
(* each program of the jog CLI, contains the setup block G21, G91, M17     *)
(* before its first move line.                                            *)
C14_SetupBeforeMoves ==
    \A gcode \in Programs :
        (gcode # ValueError /\ MovePlaces(gcode) # { }) => SetupFirst(gcode)

\* the places where a run of consecutive G101 lines begins
PulseStarts(gcode) ==
    { i \in Places(gcode, "G101") : i - 1 \notin Places(gcode, "G101") }

\* the G101 lines come in runs of exactly three, and there are n runs
PulseTriples(gcode, n) ==
    /\ Cardinality(PulseStarts(gcode)) = n
    /\ Cardinality(Places(gcode, "G101")) = 3 * n
    /\ \A i \in PulseStarts(gcode) :
          /\ { i + 1, i + 2 } \subseteq Places(gcode, "G101")
          /\ i + 3 \notin Places(gcode, "G101")

DOWN_CMDS == { "P1_DOWN", "P2_DOWN", "P3_DOWN", "P4_DOWN" }

\* a jog program of the command: three pulses right after the one move of a
\* *_DOWN program, no pulse in any other program
JogPulses(cmd, gcode) ==
    IF cmd \in DOWN_CMDS
    THEN /\ Cardinality(MovePlaces(gcode)) = 1
         /\ \A m \in MovePlaces(gcode) :
               Places(gcode, "G101") = { m + 1, m + 2, m + 3 }
    ELSE Places(gcode, "G101") = { }

(* C15: pen-down is exactly three consecutive G101 lines and pen-up none.  *)
(* In the jog CLI the three pulses directly follow the select move of a    *)
(* *_DOWN program and no other program has a G101; in the batch converter  *)
(* the select and pen-up blocks have none, the bbox program has three per  *)
(* dot and the drawing program three per drawn path.                       *)
C15_ThreePulses ==
    /\ prog = "jog_cli" =>
          /\ \A e \in Entries : JogPulses(e.cmd, e.gcode)
          /\ \A c \in DOMAIN dyn : JogPulses(c, dyn[c])
          /\ \A k \in DOMAIN cache : JogPulses(k[2], cache[k])
    /\ prog = "svg_to_gcode" =>
          /\ \A e \in Entries : Places(e.gcode, "G101") = { }
          /\ "bbox_dots.gcode" \in DOMAIN files =>
                PulseTriples(files["bbox_dots.gcode"], 4)
          /\ "drawing.gcode" \in DOMAIN files =>
                PulseTriples(files["drawing.gcode"], Len(drawable))

\* a finished run that drew two paths: six pulses in the drawing program,
\* twelve in the bbox program
C15_Witness ==
    /\ bpc = "done"
    /\ Len(drawable) = 2
    /\ Cardinality(Places(files["drawing.gcode"], "G101")) = 6
    /\ Cardinality(Places(files["bbox_dots.gcode"], "G101")) = 12

\* dwell times and the line Python prints for each: negative ones, zero,
\* and positive ones with up to ten binary places
DwellTable ==
    { << -Half, "G4 S0.000" >>, << -1, "G4 S0.000" >>, << 0, "G4 S0.000" >>,
      << 1, "G4 S0.001" >>, << One \div 16, "G4 S0.062" >>,
      << 3 * (One \div 16), "G4 S0.188" >>, << Half \div 2, "G4 S0.250" >>,
      << Mm(1) + Half, "G4 S1.500" >>, << Mm(3), "G4 S3.000" >> }

(* C16: the dwell emitter gives the single line 'G4 S<max(0, s)>' with     *)
(* three decimals: a negative time is clamped to 0 and never rejected      *)
(* (-0.5 gives 'G4 S0.000'), a non-negative time passes through unchanged; *)
(* the bbox program has that line once per dot.                            *)
C16_DwellClamped ==
    /\ \A p \in DwellTable : gcode_dwell(p[1]) = << p[2] >>
    /\ "bbox_dots.gcode" \in DOMAIN files =>
          \A p \in DwellTable :
              Cardinality(Places(files["bbox_dots.gcode"], p[2])) =
                  IF \E q \in DwellTable :
                         q[1] = args.dot_dwell_s /\ q[2] = p[2]
                  THEN 4 ELSE 0

\* a finished run with --dot_dwell_s -0.5: four 'G4 S0.000' lines
C16_Witness ==
    /\ bpc = "done"
    /\ args.dot_dwell_s = -Half
    /\ Cardinality(Places(files["bbox_dots.gcode"], "G4 S0.000")) = 4

\* n is max(1, ceil(q)): the least whole number from 1 on that is no
\* smaller than q
IsCeilFrom1(n, q) ==
    /\ n >= 1
    /\ n * One >= q
    /\ n > 1 => (n - 1) * One < q

(* C17: the segmenter's count law.  A call of move_xy_segmented emits no   *)
(* move and returns the position unchanged when the distance is within     *)
(* epsilon; otherwise exactly one move when max_step <= 0; otherwise       *)
(* exactly max(1, ceil(distance / max_step)) moves, distance and quotient  *)
(* as the code computes them.  From (0,0) to (12,0) with max_step 5 that   *)
(* is 3 moves, ending at x = 4, 8 and 12.                                  *)
C17_CountLaw ==
    /\ \A i \in 1 .. 3 :
          SegMid(<< 0, 0 >>, << Mm(12), 0 >>, i, 3) = << Mm(4 * i), 0 >>
    /\ (prog = "svg_to_gcode" /\ bpc = "returned") =>
          /\ seg.cur_xy = seg.target_xy => (g = << >> /\ cur_xy = seg.cur_xy)
          /\ (seg.cur_xy # seg.target_xy /\ seg.max_step_mm <= 0) =>
                Len(g) = 1
          /\ (seg.cur_xy # seg.target_xy /\ seg.max_step_mm > 0) =>
                IsCeilFrom1(Len(g),
                            FDiv(SegDist(seg.cur_xy, seg.target_xy),
                                 seg.max_step_mm))
          /\ (/\ seg.cur_xy = << 0, 0 >>
              /\ seg.target_xy = << Mm(12), 0 >>
              /\ seg.max_step_mm = Mm(5)) =>
                /\ g = [ i \in 1 .. 3 |-> "G1 X4.000 Y4.000 F600" ]
                /\ cur_xy = << Mm(12), 0 >>

\* the call from (0,0) to (12,0) with max_step 5 has returned three moves
C17_Witness ==
    /\ bpc = "returned"
    /\ seg.cur_xy = << 0, 0 >>
    /\ seg.target_xy = << Mm(12), 0 >>
    /\ seg.max_step_mm = Mm(5)
    /\ Len(g) = 3

\* the point the returned call of move_xy_segmented reached with its move
\* i: the start for i = 0, mid of pass i after that
SegPoint(i) ==
    IF i = 0 THEN seg.cur_xy
    ELSE SegMid(seg.cur_xy, seg.target_xy, i, Len(g))

\* b is a or lies from a towards c
Towards(a, b, c) == IF a <= c THEN a <= b ELSE b <= a

(* C18: for max_step > 0 and a distance above epsilon the sub-moves of     *)
(* move_xy_segmented run in order from start to end, each emitted move     *)
(* starts where the previous one ended, the last intermediate point is the *)
(* target and the position returned equals the target.                     *)
C18_SegmentsReachTarget ==
    (/\ prog = "svg_to_gcode"
     /\ bpc = "returned"
     /\ seg.max_step_mm > 0
     /\ seg.cur_xy # seg.target_xy) =>
        /\ \A i \in 1 .. Len(g) :
              /\ g[i] = wall_xy_to_lr_delta_g1(SegPoint(i - 1), SegPoint(i),
                                               Mm(16), FTravel).line
              /\ \A c \in 1 .. 2 :
                    Towards(SegPoint(i - 1)[c], SegPoint(i)[c],
                            seg.target_xy[c])
        /\ SegPoint(Len(g)) = seg.target_xy
        /\ cur_xy = seg.target_xy

\* what does hold of those calls: the moves chain, run in order, and the
\* position returned is the last intermediate point
SegmentsChain ==
    (/\ prog = "svg_to_gcode"
     /\ bpc = "returned"
     /\ seg.max_step_mm > 0
     /\ seg.cur_xy # seg.target_xy) =>
        /\ \A i \in 1 .. Len(g) :
              /\ g[i] = wall_xy_to_lr_delta_g1(SegPoint(i - 1), SegPoint(i),
                                               Mm(16), FTravel).line
              /\ \A c \in 1 .. 2 :
                    Towards(SegPoint(i - 1)[c], SegPoint(i)[c],
                            seg.target_xy[c])
        /\ cur_xy = SegPoint(Len(g))

\* the place where the k-th run of G101 lines of a program begins
KthPulseStart(gcode, k) ==
    CHOOSE s \in PulseStarts(gcode) :
        Cardinality({ t \in PulseStarts(gcode) : t < s }) = k - 1

\* the places between the k-th pen-down and the pen-up block after it
DrawPlaces(gcode, k) ==
    LET Upto(s, up) == (s + 3) .. (up - 1)
        NextUp(s) ==
            CHOOSE j \in Places(gcode, "G90") :
                /\ j > s
                /\ \A i \in Places(gcode, "G90") : i > s => j <= i
        From(s) == Upto(s, NextUp(s))
    IN  From(KthPulseStart(gcode, k))

\* length_wall / step_mm of the k-th path of the run
WallQuotient(k) ==
    FDiv(FMul(PathLength(drawable[k].path), mapper.mapper.scale),
         args.step_mm)

CordL(p) == Hypot(p[1], p[2])
CordR(p, D) == Hypot(FSub(D, p[1]), p[2])

\* the move line with X the change of the left cord and Y the negated
\* change of the right cord, from p0 to p1
CordLine(p0, p1, D, f) ==
    "G1 X" \o Fmt3T(FSub(CordL(p1), CordL(p0)))
        \o " Y" \o Fmt3TNeg(FSub(CordR(p1, D), CordR(p0, D)))
        \o " F" \o ToString(f)

\* the jog move line of the signs (sx, sy): X = sx*step, Y = -(sy*step)
JogLine(sx, sy, key) ==
    "G1 X" \o Fmt3(sx * key.step)
        \o " Y" \o (IF sy = 0 THEN "-0.000" ELSE Fmt3(-(sy * key.step)))
        \o " F" \o ToString(key.feed)

\* the two ends of move i of the returned call of move_xy_segmented
SegEnds(i) ==
    IF seg.max_step_mm > 0 THEN << SegPoint(i - 1), SegPoint(i) >>
    ELSE << seg.cur_xy, seg.target_xy >>

(* C20: the axis convention.  In every move line X is the change of the    *)
(* left cord and Y the negated change of the right cord.  Jog: X = sx*step *)
(* and Y = -(sy*step), so BOTH_IN gives X = -step and Y = +step.  Batch:   *)
(* X = L(p1) - L(p0) and Y = -(R(p1) - R(p0)).                             *)
C20_AxisConvention ==
    /\ prog = "jog_cli" =>
          /\ \A e \in Entries :
                e.cmd \in DOMAIN MOTOR_CMDS =>
                    /\ e.gcode[4] = JogLine(MOTOR_CMDS[e.cmd][1],
                                            MOTOR_CMDS[e.cmd][2], e.key)
                    /\ (e.cmd = "BOTH_IN" /\ e.key.step = Deg(2)) =>
                          e.gcode[4] = "G1 X-2.000 Y2.000 F"
                                           \o ToString(e.key.feed)
          /\ \A k \in DOMAIN cache :
                k[2] \in DOMAIN MOTOR_CMDS =>
                    cache[k][4] = JogLine(MOTOR_CMDS[k[2]][1],
                                          MOTOR_CMDS[k[2]][2], k[1])
    /\ (prog = "svg_to_gcode" /\ bpc = "returned") =>
          /\ \A i \in 1 .. Len(g) :
                g[i] = CordLine(SegEnds(i)[1], SegEnds(i)[2], Mm(16), FTravel)
          /\ (/\ seg.cur_xy = << Mm(12), 0 >>
              /\ seg.target_xy = << 0, 0 >>
              /\ seg.max_step_mm = 0) =>
                g = << "G1 X-12.000 Y-12.000 F600" >>

\* the direct move from (12,0) to (0,0): the left cord shortens by 12, the
\* right cord lengthens by 12 and is printed negated
C20_Witness ==
    /\ bpc = "returned"
    /\ seg.cur_xy = << Mm(12), 0 >>
    /\ seg.target_xy = << 0, 0 >>
    /\ seg.max_step_mm = 0
    /\ g = << "G1 X-12.000 Y-12.000 F600" >>

\* the command line is an invalid configuration
BadConfig ==
    \/ args.D_mm <= 0
    \/ args.bbox_pen \notin 1 .. 4
    \/ args.default_pen \notin 1 .. 4
    \/ args.fit_frac <= 0
    \/ args.fit_frac > Mm(1) + Half

\* the paths of the file all lie on one vertical or one horizontal line
ZeroArea(svg) ==
    \E c \in 1 .. 2 :
        \A i, j \in 1 .. Len(svg) :
            /\ svg[i].path.a[c] = svg[j].path.a[c]
            /\ svg[i].path.b[c] = svg[j].path.a[c]

(* C21: the batch conversion fails atomically.  An invalid configuration   *)
(* (D_mm <= 0, bbox_pen or default_pen outside 1..4, fit_frac outside      *)
(* (0, 1.5]) is detected before any path is loaded or any geometry         *)
(* computed, and when the run has aborted for an invalid configuration, an *)
(* empty drawable set or a zero-area bounding box, no output file has been *)
(* written.                                                                *)
C21_FailsAtomically ==
    args # << >> =>
        /\ Exited => files = << >>
        /\ BadConfig =>
              /\ bpc = "validate" \/ Exited
              /\ drawable = << >>
              /\ mapper = << >>
              /\ g = << >>
        /\ (~BadConfig /\ args.svg = << >>) =>
              bpc \in { "validate", "load" } \/ Exited
        /\ (~BadConfig /\ args.svg # << >> /\ ZeroArea(args.svg)) =>
              bpc \in { "validate", "load", "measure" } \/ Exited

\* a run that loaded its paths and then aborted for the zero-height
\* bounding box, with no file written
C21_Witness ==
    /\ bpc = "SystemExit: Degenerate SVG bbox (zero width/height)."
    /\ drawable # << >>
    /\ files = << >>

\* the input thread has read the angle for a pen select or a carousel jog
\* and has its write still to do
BetweenReadAndWrite ==
    \/ pc["in"] = "pen_set"
    \/ pc["in"] = "jog_set" /\ loc["in"].cur # None

(* C22: every read-modify-write of the carousel angle, by a pen select and *)
(* by a carousel jog, is one critical section of the angle lock: the lock  *)
(* is held continuously from the read to the write.                        *)
C22_AngleUpdateIsOneSection ==
    BetweenReadAndWrite => zLock = "in"

\* the angle a command of the input loop leaves, from the angle before it
AngleAfter(e) ==
    IF e.cmd \in PEN_CMDS
    THEN Some(IF e.z0 = None THEN SlotAngle[e.pen]
              ELSE RefTarget(Val(e.z0), SlotAngle[e.pen]))
    ELSE IF e.cmd = "G77" THEN Some(Deg(-56))
    ELSE IF e.cmd \in CAROUSEL_CMDS /\ e.z0 # None
    THEN Some(Val(e.z0) + Signed(e))
    ELSE e.z0

\* the angle is what the commands of the log give, applied in order from
\* the unknown angle
Replayed ==
    /\ Chained
    /\ log # << >> => log[1].z0 = None
    /\ \A e \in Entries : e.z1 = AngleAfter(e)
    /\ (Quiet /\ log = << >>) => z = None

\* the step is none of the input thread
NotOfInput ==
    /\ pc'["in"] = pc["in"]
    /\ loc'["in"] = loc["in"]
    /\ zLock' = zLock
    /\ keysLeft' = keysLeft

(* C23: only the input loop mutates the carousel angle.  No step of an     *)
(* HTTP GET (health, known or unknown /g/<cmd>.gcode, other path) changes  *)
(* the angle, the current jog parameters or the dynamic table; it can at   *)
(* most add one entry to the static cache, as the last step of its         *)
(* request.  So no angle update is lost: after any interleaving the angle  *)
(* is the result of applying the input loop's commands in order.           *)
C23_GetLeavesAngle ==
    /\ [][ NotOfInput =>
             /\ z' = z
             /\ CURRENT' = CURRENT
             /\ step' = step
             /\ feed' = feed
             /\ dyn' = dyn
             /\ log' = log
             /\ \A k \in DOMAIN cache :
                   k \in DOMAIN cache' /\ cache'[k] = cache[k]
             /\ Cardinality(DOMAIN cache' \ DOMAIN cache) <= 1
             /\ cache' # cache =>
                   \E t \in Http : pc[t] = "store" /\ pc'[t] = "idle"
          ]_vars
    /\ [](prog = "jog_cli" => Replayed)

\* a GET was answered from the cache while the input thread, after a home,
\* stood between the read and the write of the angle
C23_Witness ==
    /\ resp.code = 200
    /\ resp.src = "cache"
    /\ BetweenReadAndWrite
    /\ loc["in"].cur = Some(Deg(-56))
    /\ z = Some(Deg(-56))

\* the pair CURRENT holds
CurrentPair == [ step |-> CURRENT.step, feed |-> CURRENT.feed ]

(* C24: reads and writes of the current jog parameters are each atomic.    *)
(* Outside apply_settings CURRENT holds the pair (step, feed) that one     *)
(* settings update stored together (or the initial pair); a thread reads   *)
(* both halves of its key under CUR_LOCK, with no write between the two    *)
(* reads and never while an update is half done, so every key built by     *)
(* publish_cmd or by a GET is such a pair.                                 *)
C24_KeysAreWhole ==
    /\ [](prog = "jog_cli" =>
            /\ pc["in"] \notin { "apply", "apply_feed" } =>
                  CurrentPair = [ step |-> step, feed |-> feed ]
            /\ pc["in"] = "apply_feed" => curLock = "in"
            /\ \A t \in Threads : pc[t] = "key_feed" => curLock = t)
    /\ [][ \A t \in Threads :
               pc[t] = "key_feed" =>
                   /\ CURRENT' = CURRENT
                   /\ pc'[t] # "key_feed" =>
                         /\ loc'[t].key = CurrentPair
                         /\ pc["in"] # "apply_feed"
          ]_vars

\* a GET built its key (5, 1200) from the pair the first apply_settings
\* stored, before any key was pressed
C24_Witness ==
    /\ pc["h1"] = "cache"
    /\ loc["h1"].key = [ step |-> Deg(5), feed |-> 1200 ]
    /\ keysLeft = MaxKeys

\* the completed publish_cmd calls of the command, as places of the log
Published(c) == { i \in 1 .. Len(log) : log[i].cmd = c }

\* the text of the most recent completed publish_cmd of the command
LastPublished(c) ==
    log[CHOOSE i \in Published(c) : \A j \in Published(c) : j <= i].gcode

\* publish_cmd of the command has stored its text and not returned yet
Printing(c) == pc["in"] = "print" /\ loc["in"].cmd = c

\* the text of the most recent publish_cmd of the command that has stored
\* its text, completed or not
HasStored(c) == Printing(c) \/ Published(c) # { }
LastStored(c) == IF Printing(c) THEN loc["in"].gcode ELSE LastPublished(c)

\* the step answers a GET from the dynamic table
ServedDyn == resp' # resp /\ resp'.src = "dyn"

(* C25, as the specification states it: a GET of /g/<cmd>.gcode for a      *)
(* dynamic command returns the text of the most recent completed           *)
(* publish_cmd of that command.                                            *)
C25_ServesLatestCompleted ==
    [][ ServedDyn =>
            /\ Published(resp'.cmd) # { }
            /\ resp'.body = LastPublished(resp'.cmd)
      ]_vars

(* C25, amended: the dynamic table holds, for each dynamic command, the    *)
(* text of the most recent publish_cmd that has stored it, whether that    *)
(* call has returned or not; a GET of a command in the table is served     *)
(* that text and never goes to the static cache; a GET of a pen command    *)
(* that is not served from the table is answered with 400.                 *)
C25_ServesLatestStored ==
    /\ [](prog = "jog_cli" =>
            /\ DOMAIN dyn \subseteq DynamicCmds
            /\ \A c \in DynamicCmds :
                  /\ c \in DOMAIN dyn <=> HasStored(c)
                  /\ c \in DOMAIN dyn => dyn[c] = LastStored(c))
    /\ [][ /\ ServedDyn =>
                 /\ HasStored(resp'.cmd)
                 /\ resp'.body = LastStored(resp'.cmd)
           /\ \A t \in Http :
                 (pc[t] = "idle" /\ pc'[t] = "key") =>
                     loc'[t].cmd \notin DOMAIN dyn
           /\ (resp' # resp /\ resp'.cmd \in PEN_CMDS
                  /\ resp'.src # "dyn") => resp'.code = 400
      ]_vars

\* a GET of P1_DOWN was served the text that a publish_cmd still under way
\* had stored, and no publish_cmd of P1_DOWN has completed
C25_Witness ==
    /\ resp.src = "dyn"
    /\ resp.cmd = "P1_DOWN"
    /\ Printing("P1_DOWN")
    /\ resp.body = loc["in"].gcode
    /\ Published("P1_DOWN") = { }

\* the angles a 'G1 Z' line of the batch converter can name, and the lines
ZCandidates == { SlotAngle[p] + Deg(360) * k : p \in 1 .. 4, k \in 0 .. 3 }
ZLineSet == { ZLine(v, FZ) : v \in ZCandidates }

ZPlaces(gcode) == { i \in 1 .. Len(gcode) : gcode[i] \in ZLineSet }

\* the absolute target of the k-th 'G1 Z' line of a program
KthZTarget(gcode, k) ==
    LET At(i) == CHOOSE v \in ZCandidates : ZLine(v, FZ) = gcode[i]
    IN  At(CHOOSE i \in ZPlaces(gcode) :
               Cardinality({ j \in ZPlaces(gcode) : j < i }) = k - 1)

\* the pen of the k-th 'G1 Z' line: the bbox program has the select and a
\* pen-up per dot, all of bbox_pen; the drawing program a select and a
\* pen-up per path
KthZPen(name, k) ==
    IF name = "bbox_dots.gcode" THEN args.bbox_pen
    ELSE drawable[(k + 1) \div 2].pen

\* the 'G1 Z' lines the program has to have
ZCount(name) ==
    IF name = "bbox_dots.gcode" THEN 5 ELSE 2 * Len(drawable)

\* the k-th 'G1 Z' line is a pen-up
IsPenUp(name, k) ==
    IF name = "bbox_dots.gcode" THEN k > 1 ELSE k % 2 = 0

\* what C26 says of every program apart from the wrap
ZTargetsOrdered(name) ==
    LET gcode == files[name]
        T(k) == KthZTarget(gcode, k)
    IN  /\ Cardinality(ZPlaces(gcode)) = ZCount(name)
        /\ \A k \in 1 .. ZCount(name) :
              /\ T(k) >= SlotAngle[KthZPen(name, k)]
              /\ (T(k) - SlotAngle[KthZPen(name, k)]) % Deg(360) = 0
              /\ k > 1 => T(k - 1) <= T(k)
              /\ IsPenUp(name, k) => T(k) = T(k - 1)

KthZPlace(gcode, k) ==
    CHOOSE i \in ZPlaces(gcode) :
        Cardinality({ j \in ZPlaces(gcode) : j < i }) = k - 1

\* the positioning mode in force at line i of a program
ModeAt(gcode, i) == ModeAfter(SubSeq(gcode, 1, i - 1))

\* path k of the run: its polyline on the wall, the point the pen is at
\* before it, the travel to its first point and its draw moves
PathPoly(k) == PolyWall(drawable[k].path)

PathStart(k) ==
    IF k = 1 THEN << mapper.mapper.wall_cx, mapper.mapper.wall_cy >>
    ELSE PathPoly(k - 1)[Len(PathPoly(k - 1))]

PathTravel(k) ==
    move_xy_segmented(PathStart(k), PathPoly(k)[1], args.D_mm, FTravel,
                      args.travel_step_mm)

PathDraw(k) ==
    [ i \in 1 .. (Len(PathPoly(k)) - 1) |->
          CordLine(IF i = 1 THEN PathTravel(k).xy ELSE PathPoly(k)[i],
                   PathPoly(k)[i + 1], args.D_mm, FDraw) ]

\* the blocks of path k in the drawing program, in their order
PathBlocks(gcode, k) ==
    LET Blocks(zs, ps, zu) ==
            /\ zs + 1 < ps
            /\ ps + 2 < zu - 1
            /\ gcode[zs - 1] = "G90"
            /\ gcode[zs + 1] = "G91"
            /\ SubSeq(gcode, zs + 2, ps - 1) = PathTravel(k).lines
            /\ SubSeq(gcode, ps + 3, zu - 2) = PathDraw(k)
            /\ gcode[zu - 1] = "G90"
            /\ gcode[zu + 1] = "G91"
            /\ IF k < Len(drawable)
               THEN KthZPlace(gcode, 2 * k + 1) = zu + 3
               ELSE Len(gcode) = zu + 1
    IN  Blocks(KthZPlace(gcode, 2 * k - 1), KthPulseStart(gcode, k),
               KthZPlace(gcode, 2 * k))

(* C27: in the drawing program the blocks of every path come in the order  *)
(* pen-select, travel moves at f_travel to the path's first point, the     *)
(* three-pulse pen-down burst, the draw moves at f_draw, pen-up; so every  *)
(* draw move lies between a burst and the next pen-up and no travel move   *)
(* does; every cord move is emitted in incremental mode and every 'G1 Z'   *)
(* move in absolute mode.                                                  *)
C27_BlockOrder ==
    "drawing.gcode" \in DOMAIN files =>
        /\ FTravel # FDraw
        /\ Cardinality(ZPlaces(files["drawing.gcode"])) = 2 * Len(drawable)
        /\ PulseTriples(files["drawing.gcode"], Len(drawable))
        /\ \A k \in 1 .. Len(drawable) :
              PathBlocks(files["drawing.gcode"], k)
        /\ \A i \in MovePlaces(files["drawing.gcode"]) :
              ModeAt(files["drawing.gcode"], i) =
                  IF i \in ZPlaces(files["drawing.gcode"]) THEN "G90"
                  ELSE "G91"

\* a finished drawing of two paths, the second reached by a travel of two
\* or more moves, the first drawn with five moves
C27_Witness ==
    /\ bpc = "done"
    /\ Len(drawable) = 2
    /\ Len(PathTravel(2).lines) >= 2
    /\ Len(PathDraw(1)) = 5
    /\ PathBlocks(files["drawing.gcode"], 2)

\* the last completed publish_cmd of command c
LastEntry(c) ==
    log[CHOOSE i \in Published(c) : \A j \in Published(c) : j <= i]

(* C28: a GET of a static command that publish_cmd has published, reading  *)
(* the settings no earlier than that publish_cmd did, is served the        *)
(* program built for the (step, feed) key that publish_cmd used, so for a  *)
(* carousel jog the served Z increment is the delta publish_cmd applied.   *)
C28_ServesPublishedKey ==
    ( /\ resp.src = "cache"
      /\ Published(resp.cmd) # { }
      /\ resp.key.step >= LastEntry(resp.cmd).key.step )
        => /\ resp.key = LastEntry(resp.cmd).key
           /\ resp.body = LastEntry(resp.cmd).gcode

=============================================================================
